---- MODULE Spec2Model ----
(***************************************************************************)
(* A model of the product-scraping server of local-shop (server/index.js,  *)
(* the version with accounts and workspaces): URL discovery, the product   *)
(* cache (table products), the batch scrape handler and the CRUD handlers  *)
(* around it.                                                              *)
(*                                                                         *)
(* Text is a sequence of one-character strings, so that the regular        *)
(* expressions of the source are modelled character by character.          *)
(***************************************************************************)
EXTENDS Integers, Sequences, FiniteSets, TLC

VARIABLES
    ENABLE_DB_CACHE, \* the feature flag, fixed when the process starts
    users,      \* table users: rows [id, username, password]
    sessions,   \* table sessions: rows [token, user_id]
    workspaces, \* table workspaces: rows [id, user_id]
    products,   \* table products, the product cache: a set of rows
    nextUserId, \* AUTOINCREMENT of users
    nextWorkspaceId, \* AUTOINCREMENT of workspaces
    nextToken,  \* the tokens handed out so far (each one is fresh)
    batches,    \* the scrape requests received so far, in order of arrival
    dRaw,       \* URL discovery alone: the raw input handed to the discoverer
    dUrls,      \* URL discovery alone: the URLs it produced
    dPc,        \* URL discovery alone: "input" before, "done" after discovery
    eUrl,       \* field extraction alone: the URL of the page
    eDoc,       \* field extraction alone: the fetched document
    eData,      \* field extraction alone: the record built from it
    ePc,        \* field extraction alone: "input" before, "done" after
    evicted,    \* history: the deletions of product records by the CRUD layer
    reply,      \* the answer of the last handler that ran to its end in one step
    clientProducts, \* the client: products of App, the list it shows
    currentIndex, \* the client: the index of the current card of the swipe view
    category, \* the client: the category filter
    showFavorites, \* the client: the favorites-only filter
    viewMode  \* the client: grid or swipe

dbvars == <<users, sessions, workspaces, products, nextUserId, nextWorkspaceId, nextToken>>
svars == <<ENABLE_DB_CACHE, users, sessions, workspaces, products, nextUserId,
           nextWorkspaceId, nextToken, batches>>
dvars == <<dRaw, dUrls, dPc>>
evars == <<eUrl, eDoc, eData, ePc>>
cvars == <<clientProducts, currentIndex, category, showFavorites, viewMode>>
xvars == <<dRaw, dUrls, dPc, eUrl, eDoc, eData, ePc, evicted, reply, cvars>>
vars == <<ENABLE_DB_CACHE, users, sessions, workspaces, products, nextUserId,
          nextWorkspaceId, nextToken, batches, dRaw, dUrls, dPc,
          eUrl, eDoc, eData, ePc, evicted, reply, clientProducts,
          currentIndex, category, showFavorites, viewMode>>

\* no handler has answered yet
NoReply == [op |-> "none", token |-> 0, arg |-> 0, status |-> 0, body |-> {}]

----------------------------------------------------------------------------
(* Text helpers *)

Range(s) == {s[i] : i \in 1..Len(s)}

RECURSIVE Flatten(_)
Flatten(ss) == IF ss = <<>> THEN <<>> ELSE Head(ss) \o Flatten(Tail(ss))

HTTP  == <<"h", "t", "t", "p", ":", "/", "/">>
HTTPS == <<"h", "t", "t", "p", "s", ":", "/", "/">>

\* \s of the regular expression
IsSpace(c) == c \in {" ", "\t", "\n"}

\* the character class [.,;)] of the trailing-punctuation strip
TrailingPunct == {".", ",", ";", ")"}

HasPrefixAt(text, j, p) ==
    /\ j + Len(p) - 1 <= Len(text)
    /\ SubSeq(text, j, j + Len(p) - 1) = p

\* length of "https?://" matched at position j, 0 when it does not match there
SchemeLenAt(text, j) ==
    IF HasPrefixAt(text, j, HTTPS) THEN Len(HTTPS)
    ELSE IF HasPrefixAt(text, j, HTTP) THEN Len(HTTP)
    ELSE 0

\* /https?:\/\/[^\s]+/ matches at j: the scheme and at least one non-space
MatchStartsAt(text, j) ==
    LET n == SchemeLenAt(text, j)
    IN  /\ n > 0
        /\ j + n <= Len(text)
        /\ ~IsSpace(text[j + n])

\* [^\s]+ is greedy: the match runs to the last character before a space
RECURSIVE RunEnd(_, _)
RunEnd(text, k) ==
    IF k + 1 <= Len(text) /\ ~IsSpace(text[k + 1]) THEN RunEnd(text, k + 1) ELSE k

\* text.match(urlRegex) || [] with the g flag: leftmost matches, left to right
RECURSIVE MatchAll(_, _)
MatchAll(text, i) ==
    IF i > Len(text) THEN <<>>
    ELSE IF MatchStartsAt(text, i)
         THEN LET e == RunEnd(text, i)
              IN  <<SubSeq(text, i, e)>> \o MatchAll(text, e + 1)
         ELSE MatchAll(text, i + 1)

\* url.replace(/[.,;)]+$/, '')
RECURSIVE StripTrailing(_)
StripTrailing(url) ==
    IF url # <<>> /\ url[Len(url)] \in TrailingPunct
    THEN StripTrailing(SubSeq(url, 1, Len(url) - 1))
    ELSE url

\* a mutant of extractUrlsFromText: trailing punctuation is kept
extractUrlsNoStrip(text) == MatchAll(text, 1)

extractUrlsFromText(text) ==
    LET matches == MatchAll(text, 1)
    IN  [i \in 1..Len(matches) |-> StripTrailing(matches[i])]

\* [...new Set(urls)]: a Set keeps its elements in insertion order
RECURSIVE Dedup(_)
Dedup(urls) ==
    IF urls = <<>> THEN <<>>
    ELSE LET front == Dedup(SubSeq(urls, 1, Len(urls) - 1))
             url   == urls[Len(urls)]
         IN  IF url \in Range(front) THEN front ELSE Append(front, url)

(* The request body's `urls` value: absent, a string or an array of strings *)
Absent        == [kind |-> "absent"]
StringInput(text) == [kind |-> "string", text |-> text]
ArrayInput(blocks) == [kind |-> "array", blocks |-> blocks]

\* a mutant of Falsy: only a missing value is refused
FalsyAbsentOnly(rawInput) == rawInput.kind = "absent"

\* a mutant of Falsy: whatever is not a non-empty string is refused
FalsyUnlessText(rawInput) ==
    \/ rawInput.kind # "string"
    \/ rawInput.text = <<>>

\* !rawInput in JavaScript: undefined and "" are falsy, every array is truthy
Falsy(rawInput) ==
    \/ rawInput.kind = "absent"
    \/ rawInput.kind = "string" /\ rawInput.text = <<>>

\* the discovery part of the scrape handler, before deduplication
CollectUrls(rawInput) ==
    IF rawInput.kind = "array"
    THEN Flatten([i \in 1..Len(rawInput.blocks) |->
                     extractUrlsFromText(rawInput.blocks[i])])
    ELSE IF rawInput.kind = "string"
         THEN extractUrlsFromText(rawInput.text)
         ELSE <<>>

\* a mutant of DiscoverUrls: the list is not deduplicated
DiscoverUrlsNoDedup(rawInput) == CollectUrls(rawInput)

DiscoverUrls(rawInput) == Dedup(CollectUrls(rawInput))

----------------------------------------------------------------------------
(* Site profiles and field extraction *)

UPPER == <<"A", "B", "C", "D", "E", "F", "G", "H", "I", "J", "K", "L", "M",
           "N", "O", "P", "Q", "R", "S", "T", "U", "V", "W", "X", "Y", "Z">>
LOWER == <<"a", "b", "c", "d", "e", "f", "g", "h", "i", "j", "k", "l", "m",
           "n", "o", "p", "q", "r", "s", "t", "u", "v", "w", "x", "y", "z">>

ToLowerChar(c) ==
    IF \E i \in 1..Len(UPPER) : UPPER[i] = c
    THEN LOWER[CHOOSE i \in 1..Len(UPPER) : UPPER[i] = c]
    ELSE c

\* String.prototype.toLowerCase
ToLowerCase(text) == [i \in 1..Len(text) |-> ToLowerChar(text[i])]

\* String.prototype.trim
RECURSIVE Trim(_)
Trim(text) ==
    IF text = <<>> THEN text
    ELSE IF IsSpace(Head(text)) THEN Trim(Tail(text))
    ELSE IF IsSpace(text[Len(text)]) THEN Trim(SubSeq(text, 1, Len(text) - 1))
    ELSE text

\* String.prototype.includes
Includes(text, sub) == \E j \in 1..(Len(text) + 1) : HasPrefixAt(text, j, sub)

\* a || b on strings: the empty string (like undefined and null) is falsy
Or(a, b) == IF a # <<>> THEN a ELSE b

SITE_CONFIGS == <<
    [name |-> "amazon",
     domains |-> << <<"a", "m", "a", "z", "o", "n">>, <<"a", "m", "z", "n">> >>,
     titleSelectors |-> <<"#productTitle">>,
     imageSelectors |-> <<"#landingImage", "#imgTagWrapperId img">>,
     priceSelectors |-> <<".a-price .a-offscreen", "#priceblock_ourprice",
                          "#priceblock_dealprice",
                          "#corePrice_desktop .a-price .a-offscreen",
                          ".a-price-whole">>],
    [name |-> "flipkart",
     domains |-> << <<"f", "l", "i", "p", "k", "a", "r", "t">> >>,
     titleSelectors |-> <<".B_NuCI", "h1._3wtzKS">>,
     imageSelectors |-> <<"img._396cs4", "img._2r_T1I">>,
     priceSelectors |-> <<"div.Nx9bqj", "div._30jeq3", "div._25b18c ._30jeq3">>],
    [name |-> "ajio",
     domains |-> << <<"a", "j", "i", "o">> >>,
     titleSelectors |-> <<"h1.prod-name">>,
     imageSelectors |-> <<>>,
     priceSelectors |-> <<".prod-sp">>],
    [name |-> "bewakoof",
     domains |-> << <<"b", "e", "w", "a", "k", "o", "o", "f">> >>,
     titleSelectors |-> <<"h1#testProName">>,
     imageSelectors |-> <<>>,
     priceSelectors |-> <<"span#testNetProdPrice", ".sellingPrice">>],
    [name |-> "tatacliq",
     domains |-> << <<"t", "a", "t", "a", "c", "l", "i", "q">> >>,
     titleSelectors |-> <<"h1.ProductDetailsMain__productName">>,
     imageSelectors |-> <<>>,
     priceSelectors |-> <<"div.ProductDetailsMain__price", "h3">>],
    [name |-> "souledstore",
     domains |-> << <<"t", "h", "e", "s", "o", "u", "l", "e", "d", "s", "t", "o",
                      "r", "e">> >>,
     titleSelectors |-> <<"h1.product-name">>,
     imageSelectors |-> <<>>,
     priceSelectors |-> <<".product-price .price", ".special-price">>],
    [name |-> "decathlon",
     domains |-> << <<"d", "e", "c", "a", "t", "h", "l", "o", "n">> >>,
     titleSelectors |-> <<"h1">>,
     imageSelectors |-> <<>>,
     priceSelectors |-> <<".prc__active-price">>],
    [name |-> "nykaafashion",
     domains |-> << <<"n", "y", "k", "a", "a", "f", "a", "s", "h", "i", "o", "n">> >>,
     titleSelectors |-> <<"h1">>,
     imageSelectors |-> <<>>,
     priceSelectors |-> <<"span.css-1jczs19">>] >>

\* no profile matched (Array.prototype.find gave undefined)
NoSiteConfig == [name |-> "none", domains |-> <<>>, titleSelectors |-> <<>>,
                 imageSelectors |-> <<>>, priceSelectors |-> <<>>]

ConfigMatches(config, lower) ==
    \E k \in 1..Len(config.domains) : Includes(lower, config.domains[k])

\* a mutant of getSiteConfig: the URL is not lowercased before the scan
getSiteConfigCaseSensitive(url) ==
    LET hits == {i \in 1..Len(SITE_CONFIGS) : ConfigMatches(SITE_CONFIGS[i], url)}
    IN  IF hits = {} THEN NoSiteConfig
        ELSE SITE_CONFIGS[CHOOSE i \in hits : \A j \in hits : i <= j]

getSiteConfig(url) ==
    LET lower == ToLowerCase(url)
        hits  == {i \in 1..Len(SITE_CONFIGS) : ConfigMatches(SITE_CONFIGS[i], lower)}
    IN  IF hits = {} THEN NoSiteConfig
        ELSE SITE_CONFIGS[CHOOSE i \in hits : \A j \in hits : i <= j]

(* A fetched document, as the handler queries it:                          *)
(*   ogTitle, ogImage, ogPrice, ogCurrency  content of the meta tags       *)
(*   title      text of the title element                                  *)
(*   firstImg   src of the first img element                               *)
(*   sel        selector -> first element it selects [isImg, src, dataSrc, *)
(*              text]                                                      *)
(*   jsonLd     the application/ld+json script blocks, in document order   *)
(* A text that is absent is the empty text: the code tests both alike.     *)
NoElement == [isImg |-> FALSE, src |-> <<>>, dataSrc |-> <<>>, text |-> <<>>]

First(doc, selector) ==
    IF selector \in DOMAIN doc.sel THEN doc.sel[selector] ELSE NoElement

\* null when nothing was found is the empty text here
RECURSIVE extractFromSelectors(_, _)
extractFromSelectors(doc, selectors) ==
    IF selectors = <<>> THEN <<>>
    ELSE LET el  == First(doc, Head(selectors))
             src == Or(el.src, el.dataSrc)
             txt == Trim(el.text)
         IN  IF el.isImg /\ src # <<>> THEN src
             ELSE IF txt # <<>> THEN txt
             ELSE extractFromSelectors(doc, Tail(selectors))

(* A JSON-LD block is [parsed |-> FALSE] when JSON.parse throws, otherwise   *)
(* [parsed |-> TRUE, data |-> v] with v one of                               *)
(*   [json |-> "null"], [json |-> "other"] (a number, a string, a boolean),  *)
(*   [json |-> "array", items |-> <<v, ...>>],                               *)
(*   [json |-> "object", type |-> t, offers |-> o], and o one of             *)
(*   [kind |-> "none"], [kind |-> "array", items |-> <<o, ...>>],            *)
(*   [kind |-> "object", price |-> p, lowPrice |-> l, priceCurrency |-> c].  *)
NoOffers == [kind |-> "none"]

\* Array.isArray(item.offers) ? item.offers[0] : item.offers
FirstOffer(offers) ==
    IF offers.kind = "array"
    THEN (IF offers.items = <<>> THEN NoOffers ELSE Head(offers.items))
    ELSE offers

\* the price an item gives, the empty text when it gives none
ItemPrice(item) ==
    IF item.json = "object" /\ item.type \in {"Product", "ProductGroup"}
    THEN LET offers == FirstOffer(item.offers)
         IN  IF offers.kind # "object" THEN <<>>
             ELSE IF offers.price # <<>>
                  THEN offers.priceCurrency \o <<" ">> \o offers.price
             ELSE IF offers.lowPrice # <<>>
                  THEN offers.priceCurrency \o <<" ">> \o offers.lowPrice
             ELSE <<>>
    ELSE <<>>

\* the for loop over the items of a block: the first price ends it, and so
\* does an item that is null (reading a property of null throws, the catch
\* around the block swallows it)
RECURSIVE ScanItems(_)
ScanItems(items) ==
    IF items = <<>> THEN <<>>
    ELSE IF Head(items).json = "null" THEN <<>>
    ELSE IF ItemPrice(Head(items)) # <<>> THEN ItemPrice(Head(items))
    ELSE ScanItems(Tail(items))

BlockPrice(block) ==
    IF ~block.parsed THEN <<>>
    ELSE ScanItems(IF block.data.json = "array" THEN block.data.items
                   ELSE <<block.data>>)

\* a mutant of JsonLdPrice: one try around the whole loop, so that a block
\* that does not parse ends the visit of the blocks
RECURSIVE JsonLdPriceUntilThrow(_, _)
JsonLdPriceUntilThrow(blocks, price) ==
    IF blocks = <<>> \/ ~Head(blocks).parsed THEN price
    ELSE JsonLdPriceUntilThrow(Tail(blocks), Or(BlockPrice(Head(blocks)), price))

\* jsonLd.each(...): every block is visited, a block that gives a price
\* assigns the variable price
RECURSIVE JsonLdPrice(_, _)
JsonLdPrice(blocks, price) ==
    IF blocks = <<>> THEN price
    ELSE JsonLdPrice(Tail(blocks), Or(BlockPrice(Head(blocks)), price))

NO_TITLE   == <<"N", "o", " ", "T", "i", "t", "l", "e">>
CHECK_SITE == <<"C", "h", "e", "c", "k", " ", "S", "i", "t", "e">>
VISIT_SITE == <<"V", "i", "s", "i", "t", " ", "S", "i", "t", "e">>
ERROR_TITLE == <<"E", "r", "r", "o", "r", " ", "L", "o", "a", "d", "i", "n", "g",
                 " ", "P", "r", "o", "d", "u", "c", "t">>

\* a mutant of extractPrice: the meta tags are asked before the JSON-LD blocks
extractPriceMetaFirst(doc, siteConfig) ==
    LET selected == extractFromSelectors(doc, siteConfig.priceSelectors)
        jsonLd   == JsonLdPrice(doc.jsonLd, <<>>)
    IN  IF selected # <<>> THEN selected
        ELSE IF doc.ogPrice # <<>> THEN Or(doc.ogCurrency, <<"$">>) \o doc.ogPrice
        ELSE IF jsonLd # <<>> THEN jsonLd
        ELSE CHECK_SITE

extractPrice(doc, siteConfig) ==
    LET selected == extractFromSelectors(doc, siteConfig.priceSelectors)
        jsonLd   == JsonLdPrice(doc.jsonLd, <<>>)
    IN  IF selected # <<>> THEN selected
        ELSE IF jsonLd # <<>> THEN jsonLd
        ELSE IF doc.ogPrice # <<>> THEN Or(doc.ogCurrency, <<"$">>) \o doc.ogPrice
        ELSE CHECK_SITE

extractSize(doc) == VISIT_SITE

\* a mutant of extractTitle: the profile's title is used only when the page
\* has no og:title and no title element
extractTitleGenericFirst(doc, siteConfig) ==
    LET extracted == extractFromSelectors(doc, siteConfig.titleSelectors)
    IN  Trim(Or(doc.ogTitle, Or(doc.title, Or(extracted, NO_TITLE))))

extractTitle(doc, siteConfig) ==
    LET title     == Or(doc.ogTitle, Or(doc.title, NO_TITLE))
        extracted == extractFromSelectors(doc, siteConfig.titleSelectors)
    IN  Trim(Or(extracted, title))

extractImage(doc, siteConfig) ==
    LET image     == Or(doc.ogImage, doc.firstImg)
        extracted == extractFromSelectors(doc, siteConfig.imageSelectors)
    IN  Or(extracted, image)

\* Helper: MD5 Hash, on the URLs of the model
generateHash(url) ==
    CASE url = <<"h", "t", "t", "p", ":", "/", "/", "a">> ->
            "82795f11d2315ac2703b14c5f8020886"
      [] url = <<"h", "t", "t", "p", ":", "/", "/", "b">> ->
            "f1dccd03d58860599692df7a897bd2a1"

\* the record the handler builds from a fetched document
ProductData(id, workspaceId, url, doc) ==
    LET siteConfig == getSiteConfig(url)
    IN  [id |-> id, workspace_id |-> workspaceId, url |-> url,
         title |-> extractTitle(doc, siteConfig),
         image |-> extractImage(doc, siteConfig),
         price |-> extractPrice(doc, siteConfig),
         size |-> extractSize(doc),
         is_favorite |-> 0]

\* the record the handler builds when the fetch or the extraction threw
ErrorStub(id, url) ==
    [id |-> id, url |-> url, error |-> "Failed to load product data",
     title |-> ERROR_TITLE, image |-> <<>>, price |-> <<>>, size |-> <<>>]

----------------------------------------------------------------------------
(* The database: tables as sets of rows *)

MaxUsers == 2
MaxWorkspaces == 2
MaxTokens == 2
MaxBatches == 2

ADMIN    == <<"a", "d", "m", "i", "n">>
PASSWORD == <<"p", "a", "s", "s", "w", "o", "r", "d">>
SECRET   == <<"s", "e", "c", "r", "e", "t">>
BOB      == <<"B", "o", "b">>

\* crypto.createHash('sha256').update(password).digest('hex'), on the
\* passwords of the model
sha256(password) ==
    CASE password = PASSWORD ->
            "5e884898da28047151d0e56f8dc6292773603d0d6aabbdd62a11ef721d1542d8"
      [] password = SECRET ->
            "2bb80d537b1da3e38bd30361aa855686bde0eacd7162fef6a25fe97bf527a25b"

\* the state the module's start-up code leaves in a new database
InitServer ==
    /\ users = {[id |-> 1, username |-> ADMIN, password |-> sha256(PASSWORD)]}
    /\ sessions = {}
    /\ workspaces = {[id |-> 1, user_id |-> 1]}
    /\ products = {}
    /\ nextUserId = 2
    /\ nextWorkspaceId = 2
    /\ nextToken = 1
    /\ batches = <<>>

\* a mutant of SelectProduct: the lookup ignores the workspace
SelectProductById(rows, id, workspaceId) == {r \in rows : r.id = id}

\* a mutant of SelectProduct: the lookup never finds a row
SelectProductNever(rows, id, workspaceId) == {}

\* SELECT * FROM products WHERE id = ? AND workspace_id = ?
SelectProduct(rows, id, workspaceId) ==
    {r \in rows : r.id = id /\ r.workspace_id = workspaceId}

\* a mutant of InsertOrReplace: a plain insert into a table without the key
InsertOnly(rows, row) == rows \cup {row}

\* INSERT OR REPLACE INTO products: PRIMARY KEY (id, workspace_id), the row
\* with the same key goes
\* a mutant of InsertOrReplace: INSERT OR IGNORE, the stored row is kept
InsertOrIgnore(rows, row) ==
    IF \E r \in rows : r.id = row.id /\ r.workspace_id = row.workspace_id
    THEN rows
    ELSE rows \cup {row}

InsertOrReplace(rows, row) ==
    {r \in rows : ~(r.id = row.id /\ r.workspace_id = row.workspace_id)} \cup {row}

\* FOREIGN KEY (workspace_id) REFERENCES workspaces(id), foreign_keys = ON
WorkspaceExists(workspaceId) == \E w \in workspaces : w.id = workspaceId

\* SELECT id FROM workspaces WHERE user_id = ?
WorkspacesOf(userId) == {w \in workspaces : w.user_id = userId}

\* SELECT p.id FROM products p JOIN workspaces w ON p.workspace_id = w.id
\* WHERE p.id = ? AND w.user_id = ?
OwnedProducts(id, userId) ==
    {p \in products : p.id = id /\ \E w \in WorkspacesOf(userId) : w.id = p.workspace_id}

----------------------------------------------------------------------------
(* Accounts and sessions *)

\* requireAuth: the user of the request, 0 when it is answered 401; with the
\* database disabled the request passes with no user
SessionsOf(token) == {s \in sessions : s.token = token}

\* a mutant of Authorized: any token at all passes requireAuth
AuthorizedAnyToken(token) == ~ENABLE_DB_CACHE \/ token # 0

Authorized(token) ==
    ~ENABLE_DB_CACHE \/ (token # 0 /\ SessionsOf(token) # {})

AuthUser(token) ==
    IF ENABLE_DB_CACHE /\ token # 0 /\ SessionsOf(token) # {}
    THEN (CHOOSE s \in SessionsOf(token) : TRUE).user_id
    ELSE 0

\* POST /api/register; a request that is refused changes nothing
Register(username, password) ==
    LET normalizedUsername == Trim(ToLowerCase(username))
        existing == {u \in users : ToLowerCase(u.username) = normalizedUsername}
    IN  /\ nextUserId <= MaxUsers
        /\ nextWorkspaceId <= MaxWorkspaces
        /\ nextToken <= MaxTokens
        /\ IF ~ENABLE_DB_CACHE \/ username = <<>> \/ password = <<>> \/ existing # {}
           THEN UNCHANGED dbvars
           ELSE /\ users' = users \cup
                      {[id |-> nextUserId, username |-> normalizedUsername,
                        password |-> sha256(password)]}
                /\ nextUserId' = nextUserId + 1
                /\ workspaces' = workspaces \cup
                      {[id |-> nextWorkspaceId, user_id |-> nextUserId]}
                /\ nextWorkspaceId' = nextWorkspaceId + 1
                /\ sessions' = sessions \cup
                      {[token |-> nextToken, user_id |-> nextUserId]}
                /\ nextToken' = nextToken + 1
                /\ UNCHANGED products
        /\ UNCHANGED <<ENABLE_DB_CACHE, batches>>

\* POST /api/login
Login(username, password) ==
    LET normalizedUsername == Trim(ToLowerCase(username))
        found == {u \in users : /\ ToLowerCase(u.username) = normalizedUsername
                                /\ u.password = sha256(password)}
    IN  /\ nextToken <= MaxTokens
        /\ IF ~ENABLE_DB_CACHE \/ found = {}
           THEN UNCHANGED <<sessions, nextToken>>
           ELSE /\ sessions' = sessions \cup
                      {[token |-> nextToken,
                        user_id |-> (CHOOSE u \in found : TRUE).id]}
                /\ nextToken' = nextToken + 1
        /\ UNCHANGED <<ENABLE_DB_CACHE, users, workspaces, products, nextUserId,
                       nextWorkspaceId, batches>>

\* POST /api/logout
Logout(token) ==
    /\ IF ENABLE_DB_CACHE /\ Authorized(token)
       THEN sessions' = {s \in sessions : s.token # token}
       ELSE UNCHANGED sessions
    /\ UNCHANGED <<ENABLE_DB_CACHE, users, workspaces, products, nextUserId,
                   nextWorkspaceId, nextToken, batches>>

----------------------------------------------------------------------------
(* The CRUD handlers of products and workspaces *)

\* GET /api/products: the rows the caller is sent
ListProducts(token, workspaceId, favorites) ==
    IF ~ENABLE_DB_CACHE \/ ~Authorized(token) THEN {}
    ELSE {p \in products :
            /\ \E w \in WorkspacesOf(AuthUser(token)) : w.id = p.workspace_id
            /\ workspaceId # 0 => p.workspace_id = workspaceId
            /\ favorites => p.is_favorite = 1}

\* DELETE /api/products/:id; the handler does not read the workspace_id
\* the client puts in the query
DeleteProduct(token, id) ==
    /\ IF ENABLE_DB_CACHE /\ Authorized(token) /\ OwnedProducts(id, AuthUser(token)) # {}
       THEN products' = {p \in products : p.id # id}
       ELSE UNCHANGED products
    /\ UNCHANGED <<ENABLE_DB_CACHE, users, sessions, workspaces, nextUserId,
                   nextWorkspaceId, nextToken, batches>>

\* POST /api/workspaces
CreateWorkspace(token, name) ==
    /\ nextWorkspaceId <= MaxWorkspaces
    /\ IF ENABLE_DB_CACHE /\ Authorized(token) /\ Trim(name) # <<>>
       THEN /\ workspaces' = workspaces \cup
                  {[id |-> nextWorkspaceId, user_id |-> AuthUser(token)]}
            /\ nextWorkspaceId' = nextWorkspaceId + 1
       ELSE UNCHANGED <<workspaces, nextWorkspaceId>>
    /\ UNCHANGED <<ENABLE_DB_CACHE, users, sessions, products, nextUserId,
                   nextToken, batches>>

\* a mutant of DeleteWorkspace: the products table has no ON DELETE CASCADE
DeleteWorkspaceKeepingProducts(token, id) ==
    LET mine == WorkspacesOf(AuthUser(token))
    IN  /\ IF /\ ENABLE_DB_CACHE /\ Authorized(token)
              /\ \E w \in mine : w.id = id
              /\ Cardinality(mine) > 1
           THEN workspaces' = {w \in workspaces : w.id # id}
           ELSE UNCHANGED workspaces
        /\ UNCHANGED <<ENABLE_DB_CACHE, users, sessions, products, nextUserId,
                       nextWorkspaceId, nextToken, batches>>

\* a mutant of DeleteWorkspace: the handler does not count the workspaces
\* of the caller
DeleteWorkspaceEvenLast(token, id) ==
    LET mine == WorkspacesOf(AuthUser(token))
    IN  /\ IF /\ ENABLE_DB_CACHE /\ Authorized(token)
              /\ \E w \in mine : w.id = id
           THEN /\ workspaces' = {w \in workspaces : w.id # id}
                /\ products' = {p \in products : p.workspace_id # id}
           ELSE UNCHANGED <<workspaces, products>>
        /\ UNCHANGED <<ENABLE_DB_CACHE, users, sessions, nextUserId,
                       nextWorkspaceId, nextToken, batches>>

\* DELETE /api/workspaces/:id; the products of the workspace go with it
\* (ON DELETE CASCADE)
DeleteWorkspace(token, id) ==
    LET mine == WorkspacesOf(AuthUser(token))
    IN  /\ IF /\ ENABLE_DB_CACHE /\ Authorized(token)
              /\ \E w \in mine : w.id = id
              /\ Cardinality(mine) > 1
           THEN /\ workspaces' = {w \in workspaces : w.id # id}
                /\ products' = {p \in products : p.workspace_id # id}
           ELSE UNCHANGED <<workspaces, products>>
        /\ UNCHANGED <<ENABLE_DB_CACHE, users, sessions, nextUserId,
                       nextWorkspaceId, nextToken, batches>>

\* PATCH /api/products/:id/favorite; the handler does not read the
\* workspace_id the client puts in the body
ToggleFavorite(token, id, is_favorite) ==
    /\ IF ENABLE_DB_CACHE /\ Authorized(token) /\ OwnedProducts(id, AuthUser(token)) # {}
       THEN products' = {IF p.id = id
                         THEN [p EXCEPT !.is_favorite = IF is_favorite THEN 1 ELSE 0]
                         ELSE p : p \in products}
       ELSE UNCHANGED products
    /\ UNCHANGED <<ENABLE_DB_CACHE, users, sessions, workspaces, nextUserId,
                   nextWorkspaceId, nextToken, batches>>

----------------------------------------------------------------------------
(* POST /api/scrape *)

(* A scrape request in `batches`:                                          *)
(*   user      the user requireAuth found for the request, 0 for none      *)
(*   raw       body.urls, once the handler has read it                     *)
(*   scope     body.workspace_id when the handler refused it, else 0       *)
(*   status    0 while the handler awaits a fetch, -1 when the handler     *)
(*             threw and sent nothing, else the status of the answer       *)
(*   ws, urls, results   the handler's workspaceId, urls and results       *)
(*   fetched   the URLs axios.get was called with, in order                *)
(*   seen      for every URL looked up so far, the rows the table held for *)
(*             it in the workspace at the time of the lookup               *)
(*   writes    the outcome of every INSERT OR REPLACE: [url, ok]           *)
NewBatch(userId, raw, scope, status, ws, urls) ==
    [user |-> userId, raw |-> raw, scope |-> scope, status |-> status,
     ws |-> ws, urls |-> urls, results |-> <<>>,
     fetched |-> <<>>, seen |-> <<>>, writes |-> <<>>]

Rejected(userId, raw, scope, status) ==
    NewBatch(userId, raw, scope, status, 0, <<>>)

\* a mutant of CachedView: the copy of a cached row leaves workspace_id out
CachedViewWithoutWorkspace(cached) ==
    [id |-> cached.id, url |-> cached.url,
     title |-> cached.title, image |-> cached.image, price |-> cached.price,
     size |-> cached.size, is_favorite |-> cached.is_favorite]

\* the columns the handler copies from a cached row
CachedView(cached) ==
    [id |-> cached.id, workspace_id |-> cached.workspace_id, url |-> cached.url,
     title |-> cached.title, image |-> cached.image, price |-> cached.price,
     size |-> cached.size, is_favorite |-> cached.is_favorite]

\* the rows of the table with the key (id, workspaceId)
RowsOfKey(rows, id, workspaceId) ==
    {r \in rows : r.id = id /\ r.workspace_id = workspaceId}

\* a mutant of RunLoop: the pages of all remaining URLs are requested
\* together, as by Promise.all over urls.map
RunLoopAllAtOnce(b, rows) ==
    IF Len(b.results) = Len(b.urls) THEN [b EXCEPT !.status = 200]
    ELSE LET rest == SubSeq(b.urls, Len(b.results) + 1, Len(b.urls))
         IN  [b EXCEPT !.seen = @ \o [k \in 1..Len(rest) |->
                                         RowsOfKey(rows, generateHash(rest[k]), b.ws)],
                       !.fetched = @ \o rest]

\* a mutant of RunLoop: a cache hit writes the record back to the table
RECURSIVE RunLoopUpserting(_, _)
RunLoopUpserting(b, rows) ==
    IF Len(b.results) = Len(b.urls) THEN [b EXCEPT !.status = 200]
    ELSE LET url    == b.urls[Len(b.results) + 1]
             id     == generateHash(url)
             cached == IF ENABLE_DB_CACHE THEN SelectProduct(rows, id, b.ws) ELSE {}
             looked == [b EXCEPT !.seen = Append(@, RowsOfKey(rows, id, b.ws))]
         IN  IF cached # {}
             THEN RunLoopUpserting(
                      [looked EXCEPT
                          !.results = Append(@, CachedView(CHOOSE r \in cached : TRUE)),
                          !.writes = Append(@, [url |-> url, ok |-> TRUE])],
                      rows)
             ELSE [looked EXCEPT !.fetched = Append(@, url)]

\* the for loop from the next URL on, up to the next await: cache hits are
\* appended, the first miss calls axios.get, the end of the list answers
RECURSIVE RunLoop(_, _)
RunLoop(b, rows) ==
    IF Len(b.results) = Len(b.urls) THEN [b EXCEPT !.status = 200]
    ELSE LET url    == b.urls[Len(b.results) + 1]
             id     == generateHash(url)
             cached == IF ENABLE_DB_CACHE THEN SelectProduct(rows, id, b.ws) ELSE {}
             looked == [b EXCEPT !.seen = Append(@, RowsOfKey(rows, id, b.ws))]
         IN  IF cached # {}
             THEN RunLoop([looked EXCEPT
                             !.results = Append(@, CachedView(CHOOSE r \in cached : TRUE))],
                          rows)
             ELSE [looked EXCEPT !.fetched = Append(@, url)]

\* ORDER BY created_at ASC LIMIT 1: the oldest workspace has the least id
FirstWorkspace(userId) ==
    CHOOSE w \in WorkspacesOf(userId) : \A v \in WorkspacesOf(userId) : w.id <= v.id

\* the handler up to its first await (or its answer)
\* a mutant of ScrapeRequest: the workspace named by the request is looked
\* up by id alone, whoever owns it
ScrapeRequestAnyWorkspace(token, raw, scope) ==
    LET userId == AuthUser(token)
        start ==
            IF ~Authorized(token) THEN Rejected(0, Absent, 0, 401)
            ELSE IF Falsy(raw) THEN Rejected(userId, raw, 0, 400)
            ELSE IF ~ENABLE_DB_CACHE THEN Rejected(userId, raw, 0, -1)
            ELSE IF scope # 0
                 THEN (IF WorkspaceExists(scope)
                       THEN RunLoop(NewBatch(userId, raw, 0, 0, scope,
                                             DiscoverUrls(raw)), products)
                       ELSE Rejected(userId, raw, scope, 403))
            ELSE IF WorkspacesOf(userId) = {} THEN Rejected(userId, raw, scope, 400)
            ELSE RunLoop(NewBatch(userId, raw, 0, 0, FirstWorkspace(userId).id,
                                  DiscoverUrls(raw)), products)
    IN  /\ Len(batches) < MaxBatches
        /\ batches' = Append(batches, start)
        /\ UNCHANGED <<ENABLE_DB_CACHE, dbvars>>

ScrapeRequest(token, raw, scope) ==
    LET userId == AuthUser(token)
        start ==
            IF ~Authorized(token) THEN Rejected(0, Absent, 0, 401)
            ELSE IF Falsy(raw) THEN Rejected(userId, raw, 0, 400)
            ELSE IF ~ENABLE_DB_CACHE THEN Rejected(userId, raw, 0, -1)
            ELSE IF scope # 0
                 THEN (IF \E w \in WorkspacesOf(userId) : w.id = scope
                       THEN RunLoop(NewBatch(userId, raw, 0, 0, scope,
                                             DiscoverUrls(raw)), products)
                       ELSE Rejected(userId, raw, scope, 403))
            ELSE IF WorkspacesOf(userId) = {} THEN Rejected(userId, raw, scope, 400)
            ELSE RunLoop(NewBatch(userId, raw, 0, 0, FirstWorkspace(userId).id,
                                  DiscoverUrls(raw)), products)
    IN  /\ Len(batches) < MaxBatches
        /\ batches' = Append(batches, start)
        /\ UNCHANGED <<ENABLE_DB_CACHE, dbvars>>

\* the URL a pending request awaits the fetch of
Awaited(b) == b.urls[Len(b.results) + 1]

\* a mutant of TryBranch: the write is not in a try of its own and comes
\* before the push, so that a failed write reaches the outer catch
TryBranchNoInnerCatch(b, rows, doc, dbOk) ==
    LET url == Awaited(b)
        row == ProductData(generateHash(url), b.ws, url, doc)
        ok  == dbOk /\ WorkspaceExists(b.ws)
    IN  [batch |-> [b EXCEPT
                      !.results = Append(@, IF ok THEN row
                                            ELSE ErrorStub(generateHash(url), url)),
                      !.writes = Append(@, [url |-> url, ok |-> ok])],
         rows |-> IF ok THEN InsertOrReplace(rows, row) ELSE rows]

\* a mutant of TryBranch: the statement is prepared but never run, the
\* record is returned and not stored
TryBranchNotStoring(b, rows, doc, dbOk) ==
    LET url == Awaited(b)
        row == ProductData(generateHash(url), b.ws, url, doc)
    IN  [batch |-> [b EXCEPT !.results = Append(@, row),
                             !.writes = Append(@, [url |-> url, ok |-> TRUE])],
         rows |-> rows]

\* the try block after axios.get resolved with a document: extraction, push,
\* store; dbOk is whether the database takes the write. Gives the request
\* and the table after it.
TryBranch(b, rows, doc, dbOk) ==
    LET url == Awaited(b)
        row == ProductData(generateHash(url), b.ws, url, doc)
        ok  == dbOk /\ WorkspaceExists(b.ws)
    IN  [batch |-> [b EXCEPT !.results = Append(@, row),
                             !.writes = IF ENABLE_DB_CACHE
                                        THEN Append(@, [url |-> url, ok |-> ok])
                                        ELSE @],
         rows |-> IF ENABLE_DB_CACHE /\ ok THEN InsertOrReplace(rows, row) ELSE rows]

\* a mutant of CatchBranch: nothing is pushed for a failed fetch, so that
\* the loop comes to the same URL again
CatchBranchRetrying(b, rows) == [batch |-> b, rows |-> rows]

\* a mutant of CatchBranch: the error record is stored like a product
CatchBranchStoring(b, rows) ==
    LET url  == Awaited(b)
        stub == ErrorStub(generateHash(url), url)
    IN  [batch |-> [b EXCEPT !.results = Append(@, stub)],
         rows |-> InsertOrReplace(rows,
                      [id |-> stub.id, workspace_id |-> b.ws, url |-> url,
                       title |-> stub.title, image |-> stub.image,
                       price |-> stub.price, size |-> stub.size, is_favorite |-> 0])]

\* a mutant of CatchBranch: a failed scrape removes the record of the URL
CatchBranchEvicting(b, rows) ==
    LET url == Awaited(b)
    IN  [batch |-> [b EXCEPT !.results = Append(@, ErrorStub(generateHash(url), url))],
         rows |-> rows \ RowsOfKey(rows, generateHash(url), b.ws)]

\* the catch block after axios.get rejected (network failure, status outside
\* 2xx, timeout): the stub is pushed, the table is not touched
CatchBranch(b, rows) ==
    LET url == Awaited(b)
    IN  [batch |-> [b EXCEPT !.results = Append(@, ErrorStub(generateHash(url), url))],
         rows |-> rows]

\* axios.get resolved: the try block, then the loop up to the next await
FetchResolve(i, doc, dbOk) ==
    LET after == TryBranch(batches[i], products, doc, dbOk)
    IN  /\ batches[i].status = 0
        /\ products' = after.rows
        /\ batches' = [batches EXCEPT ![i] = RunLoop(after.batch, after.rows)]
        /\ UNCHANGED <<ENABLE_DB_CACHE, users, sessions, workspaces, nextUserId,
                       nextWorkspaceId, nextToken>>

\* axios.get rejected: the catch block, then the loop up to the next await
FetchReject(i) ==
    LET after == CatchBranch(batches[i], products)
    IN  /\ batches[i].status = 0
        /\ products' = after.rows
        /\ batches' = [batches EXCEPT ![i] = RunLoop(after.batch, after.rows)]
        /\ UNCHANGED <<ENABLE_DB_CACHE, users, sessions, workspaces, nextUserId,
                       nextWorkspaceId, nextToken>>

----------------------------------------------------------------------------
(* The server *)

URL_A == <<"h", "t", "t", "p", ":", "/", "/", "a">>
URL_B == <<"h", "t", "t", "p", ":", "/", "/", "b">>

Usernames == {ADMIN, BOB}
Passwords == {PASSWORD, SECRET}
Tokens == 0..MaxTokens
WorkspaceIds == 0..MaxWorkspaces
ProductIds == {generateHash(URL_A), generateHash(URL_B)}

\* the request bodies' urls values
ScrapeInputs ==
    {Absent, StringInput(<<>>), StringInput(<<"x">>), StringInput(URL_A),
     ArrayInput(<<URL_B \o <<".">>, URL_A \o <<" ">> \o URL_B>>)}

\* the pages a fetch can bring
DOC_1 == [ogTitle |-> <<"S", "h", "o", "e">>, title |-> <<"s">>,
          ogImage |-> <<"i", "1">>, firstImg |-> <<>>, sel |-> <<>>,
          jsonLd |-> <<>>, ogPrice |-> <<"9">>, ogCurrency |-> <<>>]
DOC_2 == [ogTitle |-> <<>>, title |-> <<" ", "H", "a", "t", "\n">>,
          ogImage |-> <<>>, firstImg |-> <<"i", "2">>, sel |-> <<>>,
          jsonLd |-> << [parsed |-> FALSE],
                        [parsed |-> TRUE,
                         data |-> [json |-> "object", type |-> "Product",
                                   offers |-> [kind |-> "object", price |-> <<"5">>,
                                               lowPrice |-> <<>>,
                                               priceCurrency |-> <<"U", "S", "D">>]]] >>,
          ogPrice |-> <<>>, ogCurrency |-> <<>>]
Docs == {DOC_1}

Init ==
    /\ ENABLE_DB_CACHE = TRUE
    /\ InitServer
    /\ dRaw = Absent /\ dUrls = <<>> /\ dPc = "off"
    /\ eUrl = <<>> /\ eDoc = <<>> /\ eData = <<>> /\ ePc = "off"
    /\ evicted = {}
    /\ reply = NoReply
    /\ clientProducts = <<>>
    /\ currentIndex = 0
    /\ category = "all"
    /\ showFavorites = FALSE
    /\ viewMode = "grid"

Next ==
    \/ \E u \in Usernames, p \in {<<>>, SECRET} : Register(u, p) /\ UNCHANGED xvars
    \/ \E u \in Usernames, p \in Passwords : Login(u, p) /\ UNCHANGED xvars
    \/ \E t \in Tokens, id \in ProductIds : DeleteProduct(t, id) /\ UNCHANGED xvars
    \/ \E t \in Tokens, n \in {<<>>, <<"w">>} : CreateWorkspace(t, n) /\ UNCHANGED xvars
    \/ \E t \in Tokens, w \in WorkspaceIds : DeleteWorkspace(t, w) /\ UNCHANGED xvars
    \/ \E t \in Tokens, id \in ProductIds, f \in BOOLEAN :
          ToggleFavorite(t, id, f) /\ UNCHANGED xvars
    \/ \E t \in Tokens, raw \in ScrapeInputs, w \in WorkspaceIds :
          ScrapeRequest(t, raw, w) /\ UNCHANGED xvars
    \/ \E i \in 1..Len(batches), doc \in Docs, dbOk \in BOOLEAN :
          FetchResolve(i, doc, dbOk) /\ UNCHANGED xvars
    \/ \E i \in 1..Len(batches) : FetchReject(i) /\ UNCHANGED xvars

Spec == Init /\ [][Next]_vars

----------------------------------------------------------------------------
(* URL discovery on its own: inputs built from a few pieces of text *)

MaxPieces == 4

URL_EXAMPLE ==
    <<"h", "t", "t", "p", "s", ":", "/", "/", "e", "x", "a", "m", "p", "l",
      "e", ".", "c", "o", "m", "/", "a">>

ExampleText ==
    <<"C", "h", "e", "c", "k", " ", "t", "h", "i", "s", " ", "o", "u", "t",
      " ", "h", "t", "t", "p", "s", ":", "/", "/", "e", "x", "a", "m", "p",
      "l", "e", ".", "c", "o", "m", "/", "a", " ", "a", "n", "d", " ", "a",
      "l", "s", "o", " ", "h", "t", "t", "p", "s", ":", "/", "/", "e", "x",
      "a", "m", "p", "l", "e", ".", "c", "o", "m", "/", "a", ".">>

\* the pieces a text is made of; BlockSep ends a block of an array input
BlockSep == <<"|">>
Pieces == {URL_A, URL_B, <<".">>, <<")">>, <<",">>, <<";">>, <<" ">>, <<"x">>}

PieceSeqs(S) == UNION {[1..n -> S] : n \in 0..MaxPieces}

\* the blocks of a piece sequence: split at BlockSep, pieces concatenated
RECURSIVE Blocks(_, _)
Blocks(ps, cur) ==
    IF ps = <<>> THEN <<cur>>
    ELSE IF Head(ps) = BlockSep THEN <<cur>> \o Blocks(Tail(ps), <<>>)
         ELSE Blocks(Tail(ps), cur \o Head(ps))

DiscoverInputs ==
    {StringInput(Flatten(ps)) : ps \in PieceSeqs(Pieces)}
    \cup {ArrayInput(Blocks(ps, <<>>)) : ps \in PieceSeqs(Pieces \cup {BlockSep})}
    \cup {StringInput(ExampleText), Absent}

InitDiscover ==
    /\ ENABLE_DB_CACHE = TRUE
    /\ InitServer
    /\ dRaw \in DiscoverInputs
    /\ dUrls = <<>>
    /\ dPc = "input"
    /\ eUrl = <<>> /\ eDoc = <<>> /\ eData = <<>> /\ ePc = "off"
    /\ evicted = {}
    /\ reply = NoReply
    /\ clientProducts = <<>>
    /\ currentIndex = 0
    /\ category = "all"
    /\ showFavorites = FALSE
    /\ viewMode = "grid"

Discover ==
    /\ dPc = "input"
    /\ dUrls' = DiscoverUrls(dRaw)
    /\ dPc' = "done"
    /\ UNCHANGED <<dRaw, svars, evars, evicted, reply, cvars>>

NextDiscover == Discover

SpecDiscover == InitDiscover /\ [][NextDiscover]_vars

----------------------------------------------------------------------------
(* Field extraction alone: a document is handed to the extraction code of   *)
(* the scrape handler                                                       *)

MaxBlocks == 2

URL_PLAIN == <<"h", "t", "t", "p", ":", "/", "/", "a">>
URL_FLIPKART == <<"h", "t", "t", "p", ":", "/", "/", "F", "l", "i", "p", "K", "a",
                  "r", "t", ".", "i", "n">>
URL_AJIO == <<"h", "t", "t", "p", ":", "/", "/", "a", "j", "i", "o", ".", "c">>
ExtractUrls == {URL_PLAIN, URL_FLIPKART, URL_AJIO}

TextElement(text) == [isImg |-> FALSE, src |-> <<>>, dataSrc |-> <<>>, text |-> text]
ImgElement(src, dataSrc) == [isImg |-> TRUE, src |-> src, dataSrc |-> dataSrc, text |-> <<>>]

\* the elements the first selector of a list may select
FirstElements ==
    {NoElement, TextElement(<<" ", "T", "1", " ">>), TextElement(<<" ", "\n">>),
     ImgElement(<<>>, <<"d", "1">>), ImgElement(<<>>, <<>>)}
\* the elements a later selector may select
LaterElements == {NoElement, TextElement(<<"T", "2">>), TextElement(<<" ">>)}

Offer(price, lowPrice, priceCurrency) ==
    [kind |-> "object", price |-> price, lowPrice |-> lowPrice,
     priceCurrency |-> priceCurrency]
Item(type, offers) == [json |-> "object", type |-> type, offers |-> offers]
Parsed(data) == [parsed |-> TRUE, data |-> data]
PRODUCT_5 == Item("Product", Offer(<<"5">>, <<"4">>, <<"U", "S", "D">>))
GROUP_7 == Item("ProductGroup",
                [kind |-> "array", items |-> <<Offer(<<>>, <<"7">>, <<>>)>>])

\* the JSON-LD script blocks of the documents
JsonLdBlocks ==
    {[parsed |-> FALSE],
     Parsed([json |-> "null"]),
     Parsed([json |-> "other"]),
     Parsed(Item("Offer", Offer(<<"3">>, <<>>, <<>>))),
     Parsed(Item("Product", NoOffers)),
     Parsed(PRODUCT_5),
     Parsed(GROUP_7),
     Parsed([json |-> "array", items |-> <<[json |-> "null"], PRODUCT_5>>]),
     Parsed([json |-> "array", items |-> <<[json |-> "other"], GROUP_7, PRODUCT_5>>])}

BlockSeqs == UNION {[1..n -> JsonLdBlocks] : n \in 0..MaxBlocks}

\* a page with nothing on it
EMPTY_DOC == [ogTitle |-> <<>>, title |-> <<>>, ogImage |-> <<>>, firstImg |-> <<>>,
              sel |-> <<>>, jsonLd |-> <<>>, ogPrice |-> <<>>, ogCurrency |-> <<>>]

\* the pages that differ in what the title comes from (the selectors are the
\* title selectors of the flipkart and ajio profiles)
TitleDocs ==
    {[EMPTY_DOC EXCEPT !.sel = (".B_NuCI" :> e1) @@ ("h1._3wtzKS" :> e2)
                                   @@ ("h1.prod-name" :> e1),
                       !.ogTitle = og, !.title = ti] :
        e1 \in FirstElements, e2 \in LaterElements,
        og \in {<<>>, <<" ">>, <<"O", "g", " ">>},
        ti \in {<<>>, <<" ", "T", "i">>}}

\* the pages that differ in what the price comes from (the selectors are the
\* price selectors of the flipkart and ajio profiles)
PriceDocs ==
    {[EMPTY_DOC EXCEPT !.sel = ("div.Nx9bqj" :> e1) @@ ("div._30jeq3" :> e2)
                                   @@ (".prod-sp" :> e1),
                       !.jsonLd = blocks, !.ogPrice = amount, !.ogCurrency = currency] :
        e1 \in {NoElement, TextElement(<<" ", "T", "1", " ">>), TextElement(<<" ">>)},
        e2 \in {NoElement, TextElement(<<"T", "2">>)},
        blocks \in BlockSeqs,
        amount \in {<<>>, <<"9">>}, currency \in {<<>>, <<"E">>}}

InitExtract ==
    /\ ENABLE_DB_CACHE = TRUE
    /\ InitServer
    /\ dRaw = Absent /\ dUrls = <<>> /\ dPc = "off"
    /\ eUrl \in ExtractUrls
    /\ eDoc \in TitleDocs \cup PriceDocs
    /\ eData = <<>>
    /\ ePc = "input"
    /\ evicted = {}
    /\ reply = NoReply
    /\ clientProducts = <<>>
    /\ currentIndex = 0
    /\ category = "all"
    /\ showFavorites = FALSE
    /\ viewMode = "grid"

\* the extraction of the try block, on the document the fetch resolved with
Extract ==
    /\ ePc = "input"
    /\ eData' = ProductData(generateHash(URL_PLAIN), 1, eUrl, eDoc)
    /\ ePc' = "done"
    /\ UNCHANGED <<eUrl, eDoc, svars, dvars, evicted, reply, cvars>>

NextExtract == Extract

SpecExtract == InitExtract /\ [][NextExtract]_vars

----------------------------------------------------------------------------
(* One signed-in user: scrape requests in flight together with the CRUD     *)
(* operations on products and workspaces, on pages that differ              *)

BatchInputs == {StringInput(URL_A), ArrayInput(<<URL_B \o <<".">>, URL_A>>)}
BatchDocs == {DOC_1, DOC_2}

\* the server after admin has logged in and created a second workspace
InitBatch ==
    /\ ENABLE_DB_CACHE = TRUE
    /\ users = {[id |-> 1, username |-> ADMIN, password |-> sha256(PASSWORD)]}
    /\ sessions = {[token |-> 1, user_id |-> 1]}
    /\ workspaces = {[id |-> 1, user_id |-> 1], [id |-> 2, user_id |-> 1]}
    /\ products = {}
    /\ nextUserId = 2
    /\ nextWorkspaceId = 3
    /\ nextToken = 2
    /\ batches = <<>>
    /\ dRaw = Absent /\ dUrls = <<>> /\ dPc = "off"
    /\ eUrl = <<>> /\ eDoc = <<>> /\ eData = <<>> /\ ePc = "off"
    /\ evicted = {}
    /\ reply = NoReply
    /\ clientProducts = <<>>
    /\ currentIndex = 0
    /\ category = "all"
    /\ showFavorites = FALSE
    /\ viewMode = "grid"

\* the requests waiting for a fetch
InFlight == {i \in 1..Len(batches) : batches[i].status = 0}

\* DELETE /api/products/:id, with the history of the keys it removed while
\* no scrape request was in flight, and of how many requests had arrived
DeleteProductLogged(token, id) ==
    /\ DeleteProduct(token, id)
    /\ evicted' = IF InFlight # {} THEN evicted
                  ELSE evicted \cup
                          {[id |-> r.id, workspace_id |-> r.workspace_id,
                            arrived |-> Len(batches)] : r \in products \ products'}

NextBatch ==
    \/ \E id \in ProductIds :
          DeleteProductLogged(1, id) /\ UNCHANGED <<dvars, evars, reply, cvars>>
    \/ \E id \in ProductIds, f \in BOOLEAN : ToggleFavorite(1, id, f) /\ UNCHANGED xvars
    \/ \E w \in WorkspaceIds : DeleteWorkspace(1, w) /\ UNCHANGED xvars
    \/ \E raw \in BatchInputs, w \in WorkspaceIds :
          ScrapeRequest(1, raw, w) /\ UNCHANGED xvars
    \/ \E i \in 1..Len(batches), doc \in BatchDocs :
          FetchResolve(i, doc, TRUE) /\ UNCHANGED xvars
    \/ \E i \in 1..Len(batches) : FetchReject(i) /\ UNCHANGED xvars

SpecBatch == InitBatch /\ [][NextBatch]_vars

\* the fetch request i waits for is given up: axios.get rejects when its
\* timeout of 10 s is over (or earlier, on an error)
FetchTimeout(i) ==
    /\ i \in 1..Len(batches)
    /\ FetchReject(i)
    /\ UNCHANGED xvars

\* the same server, where no fetch stays pending for ever: while a request
\* waits for a page the timeout is due, unless the page or an error comes
\* first
SpecBatchLive ==
    /\ InitBatch
    /\ [][NextBatch]_vars
    /\ \A i \in 1..MaxBatches : WF_vars(FetchTimeout(i))

----------------------------------------------------------------------------
(* A scrape request and its repetition, with nothing else in between *)

\* the request bodies' urls values and workspace_id values of the first request
RepeatInputs ==
    {Absent, StringInput(<<"x">>), StringInput(URL_A),
     ArrayInput(<<URL_B \o <<".">>, URL_A>>)}
RepeatScopes == {0, 1, 2}

\* a row an earlier scrape of URL_A stored in workspace 1 and a later
\* PATCH /api/products/:id/favorite marked
FAVORITE_A ==
    [ProductData(generateHash(URL_A), 1, URL_A, DOC_1) EXCEPT !.is_favorite = 1]

\* the server after admin has logged in, the table empty or holding one row
InitRepeat ==
    /\ ENABLE_DB_CACHE = TRUE
    /\ users = {[id |-> 1, username |-> ADMIN, password |-> sha256(PASSWORD)]}
    /\ sessions = {[token |-> 1, user_id |-> 1]}
    /\ workspaces = {[id |-> 1, user_id |-> 1]}
    /\ products \in {{}, {FAVORITE_A}}
    /\ nextUserId = 2
    /\ nextWorkspaceId = 2
    /\ nextToken = 2
    /\ batches = <<>>
    /\ dRaw = Absent /\ dUrls = <<>> /\ dPc = "off"
    /\ eUrl = <<>> /\ eDoc = <<>> /\ eData = <<>> /\ ePc = "off"
    /\ evicted = {}
    /\ reply = NoReply
    /\ clientProducts = <<>>
    /\ currentIndex = 0
    /\ category = "all"
    /\ showFavorites = FALSE
    /\ viewMode = "grid"

\* POST /api/scrape, the first time
FirstRequest(raw, scope) ==
    /\ batches = <<>>
    /\ ScrapeRequest(1, raw, scope)

\* POST /api/scrape once the first request was answered, with the same body:
\* the same urls and the workspace the first request ran in (the
\* workspace_id it sent, where it was refused)
RepeatRequest ==
    /\ Len(batches) = 1
    /\ batches[1].status # 0
    /\ ScrapeRequest(1, batches[1].raw,
                     IF batches[1].status = 200 THEN batches[1].ws
                     ELSE batches[1].scope)

NextRepeat ==
    \/ \E raw \in RepeatInputs, scope \in RepeatScopes :
          FirstRequest(raw, scope) /\ UNCHANGED xvars
    \/ RepeatRequest /\ UNCHANGED xvars
    \/ \E i \in 1..Len(batches), doc \in BatchDocs, dbOk \in BOOLEAN :
          FetchResolve(i, doc, dbOk) /\ UNCHANGED xvars
    \/ \E i \in 1..Len(batches) : FetchReject(i) /\ UNCHANGED xvars

SpecRepeat == InitRepeat /\ [][NextRepeat]_vars

----------------------------------------------------------------------------
(* getSiteConfig on URLs put together from parts of host names *)

MaxHostParts == 2

HostParts ==
    {<<"a", "m", "z", "n">>, <<"A", "M", "A", "Z", "O", "N">>,
     <<"F", "l", "i", "p">>, <<"k", "a", "r", "t">>,
     <<"a", "j", "i", "o">>, <<"A", "J", "I", "O">>, <<"x">>, <<".">>}

ProfileUrls ==
    {Flatten(parts) : parts \in UNION {[1..n -> HostParts] : n \in 0..MaxHostParts}}

InitProfile ==
    /\ ENABLE_DB_CACHE = TRUE
    /\ InitServer
    /\ dRaw = Absent /\ dUrls = <<>> /\ dPc = "off"
    /\ eUrl \in ProfileUrls
    /\ eDoc = <<>>
    /\ eData = <<>>
    /\ ePc = "url"
    /\ evicted = {}
    /\ reply = NoReply
    /\ clientProducts = <<>>
    /\ currentIndex = 0
    /\ category = "all"
    /\ showFavorites = FALSE
    /\ viewMode = "grid"

\* const siteConfig = getSiteConfig(url)
MatchProfile ==
    /\ ePc = "url"
    /\ eData' = getSiteConfig(eUrl)
    /\ ePc' = "matched"
    /\ UNCHANGED <<eUrl, eDoc, svars, dvars, evicted, reply, cvars>>

NextProfile == MatchProfile

SpecProfile == InitProfile /\ [][NextProfile]_vars

----------------------------------------------------------------------------
(* The handlers together with the status and body they answer with *)

\* res.status(status).json(body) to a request; arg is the :id of a request
\* for a workspace (else 0), body is kept for the lists only
Answer(op, token, arg, status, body) ==
    reply' = [op |-> op, token |-> token, arg |-> arg, status |-> status,
              body |-> body]

RegisterStatus(username, password) ==
    IF ~ENABLE_DB_CACHE THEN 501
    ELSE IF username = <<>> \/ password = <<>> THEN 400
    ELSE IF \E u \in users : ToLowerCase(u.username) = Trim(ToLowerCase(username))
         THEN 400
    ELSE 200

LoginStatus(username, password) ==
    IF ~ENABLE_DB_CACHE THEN 501
    ELSE IF \E u \in users : /\ ToLowerCase(u.username) = Trim(ToLowerCase(username))
                              /\ u.password = sha256(password)
         THEN 200
    ELSE 401

\* app.get('/api/me'): without the database req.user is undefined and the
\* handler throws
GetMeStatus(token) ==
    IF ~Authorized(token) THEN 401 ELSE IF ~ENABLE_DB_CACHE THEN 500 ELSE 200

LogoutStatus(token) ==
    IF ~Authorized(token) THEN 401 ELSE IF ~ENABLE_DB_CACHE THEN 500 ELSE 200

GetProductsStatus(token) == IF ~Authorized(token) THEN 401 ELSE 200

GetWorkspacesStatus(token) == IF ~Authorized(token) THEN 401 ELSE 200

DeleteProductStatus(token, id) ==
    IF ~Authorized(token) THEN 401
    ELSE IF ~ENABLE_DB_CACHE THEN 501
    ELSE IF OwnedProducts(id, AuthUser(token)) = {} THEN 404
    ELSE 200

CreateWorkspaceStatus(token, name) ==
    IF ~Authorized(token) THEN 401
    ELSE IF ~ENABLE_DB_CACHE THEN 501
    ELSE IF Trim(name) = <<>> THEN 400
    ELSE 200

DeleteWorkspaceStatus(token, id) ==
    IF ~Authorized(token) THEN 401
    ELSE IF ~ENABLE_DB_CACHE THEN 501
    ELSE IF ~\E w \in WorkspacesOf(AuthUser(token)) : w.id = id THEN 404
    ELSE IF Cardinality(WorkspacesOf(AuthUser(token))) <= 1 THEN 400
    ELSE 200

ToggleFavoriteStatus(token, id) ==
    IF ~Authorized(token) THEN 401
    ELSE IF ~ENABLE_DB_CACHE THEN 501
    ELSE IF OwnedProducts(id, AuthUser(token)) = {} THEN 404
    ELSE 200

\* GET /api/me
GetMe(token) ==
    /\ Answer("me", token, 0, GetMeStatus(token), {})
    /\ UNCHANGED svars

\* GET /api/products
GetProducts(token, workspaceId, favorites) ==
    /\ Answer("products", token, 0, GetProductsStatus(token),
              ListProducts(token, workspaceId, favorites))
    /\ UNCHANGED svars

\* GET /api/workspaces
GetWorkspaces(token) ==
    /\ Answer("workspaces", token, 0, GetWorkspacesStatus(token),
              IF ENABLE_DB_CACHE /\ Authorized(token)
              THEN WorkspacesOf(AuthUser(token)) ELSE {})
    /\ UNCHANGED svars

AnswerUsernames == {ADMIN, BOB}
AnswerInputs == {StringInput(<<>>), StringInput(URL_A)}

NextAnswers ==
    \/ \E u \in AnswerUsernames :
          /\ Register(u, SECRET)
          /\ Answer("register", 0, 0, RegisterStatus(u, SECRET), {})
          /\ UNCHANGED <<dvars, evars, evicted, cvars>>
    \/ \E p \in Passwords :
          /\ Login(ADMIN, p)
          /\ Answer("login", 0, 0, LoginStatus(ADMIN, p), {})
          /\ UNCHANGED <<dvars, evars, evicted, cvars>>
    \/ \E t \in Tokens :
          /\ Logout(t)
          /\ Answer("logout", t, 0, LogoutStatus(t), {})
          /\ UNCHANGED <<dvars, evars, evicted, cvars>>
    \/ \E t \in Tokens : GetMe(t) /\ UNCHANGED <<dvars, evars, evicted, cvars>>
    \/ \E t \in Tokens, w \in WorkspaceIds, f \in BOOLEAN :
          GetProducts(t, w, f) /\ UNCHANGED <<dvars, evars, evicted, cvars>>
    \/ \E t \in Tokens : GetWorkspaces(t) /\ UNCHANGED <<dvars, evars, evicted, cvars>>
    \/ \E t \in Tokens :
          /\ DeleteProduct(t, generateHash(URL_A))
          /\ Answer("deleteProduct", t, 0, DeleteProductStatus(t, generateHash(URL_A)), {})
          /\ UNCHANGED <<dvars, evars, evicted, cvars>>
    \/ \E t \in Tokens, n \in {<<>>, <<"w">>} :
          /\ CreateWorkspace(t, n)
          /\ Answer("createWorkspace", t, 0, CreateWorkspaceStatus(t, n), {})
          /\ UNCHANGED <<dvars, evars, evicted, cvars>>
    \/ \E t \in Tokens, w \in WorkspaceIds :
          /\ DeleteWorkspace(t, w)
          /\ Answer("deleteWorkspace", t, w, DeleteWorkspaceStatus(t, w), {})
          /\ UNCHANGED <<dvars, evars, evicted, cvars>>
    \/ \E t \in Tokens, f \in BOOLEAN :
          /\ ToggleFavorite(t, generateHash(URL_A), f)
          /\ Answer("favorite", t, 0, ToggleFavoriteStatus(t, generateHash(URL_A)), {})
          /\ UNCHANGED <<dvars, evars, evicted, cvars>>
    \/ \E t \in Tokens, raw \in AnswerInputs, w \in WorkspaceIds :
          ScrapeRequest(t, raw, w) /\ UNCHANGED xvars
    \/ \E i \in 1..Len(batches) : FetchResolve(i, DOC_1, TRUE) /\ UNCHANGED xvars

SpecAnswers == Init /\ [][NextAnswers]_vars

----------------------------------------------------------------------------
(* The server started with USE_DATABASE=false *)

\* no database is opened: db stays undefined and there are no tables
InitNoDatabase ==
    /\ ENABLE_DB_CACHE = FALSE
    /\ users = {} /\ sessions = {} /\ workspaces = {} /\ products = {}
    /\ nextUserId = 1 /\ nextWorkspaceId = 1 /\ nextToken = 1
    /\ batches = <<>>
    /\ dRaw = Absent /\ dUrls = <<>> /\ dPc = "off"
    /\ eUrl = <<>> /\ eDoc = <<>> /\ eData = <<>> /\ ePc = "off"
    /\ evicted = {}
    /\ reply = NoReply
    /\ clientProducts = <<>>
    /\ currentIndex = 0
    /\ category = "all"
    /\ showFavorites = FALSE
    /\ viewMode = "grid"

NextNoDatabase ==
    \/ \E u \in AnswerUsernames :
          /\ Register(u, SECRET)
          /\ Answer("register", 0, 0, RegisterStatus(u, SECRET), {})
          /\ UNCHANGED <<dvars, evars, evicted, cvars>>
    \/ \E t \in Tokens : GetMe(t) /\ UNCHANGED <<dvars, evars, evicted, cvars>>
    \/ \E t \in Tokens, w \in WorkspaceIds, f \in BOOLEAN :
          GetProducts(t, w, f) /\ UNCHANGED <<dvars, evars, evicted, cvars>>
    \/ \E t \in Tokens : GetWorkspaces(t) /\ UNCHANGED <<dvars, evars, evicted, cvars>>
    \/ \E t \in Tokens, f \in BOOLEAN :
          /\ ToggleFavorite(t, generateHash(URL_A), f)
          /\ Answer("favorite", t, 0, ToggleFavoriteStatus(t, generateHash(URL_A)), {})
          /\ UNCHANGED <<dvars, evars, evicted, cvars>>
    \/ \E t \in Tokens, raw \in ScrapeInputs, w \in WorkspaceIds :
          ScrapeRequest(t, raw, w) /\ UNCHANGED xvars

SpecNoDatabase == InitNoDatabase /\ [][NextNoDatabase]_vars

----------------------------------------------------------------------------
(* The client: the list of products of App and the card of the swipe view *)

MaxCards == 3

shoeKeywords ==
    <<<<"s", "h", "o", "e">>, <<"s", "n", "e", "a", "k", "e", "r">>,
      <<"s", "a", "n", "d", "a", "l">>, <<"b", "o", "o", "t">>,
      <<"h", "e", "e", "l">>, <<"f", "o", "o", "t", "w", "e", "a", "r">>,
      <<"s", "l", "i", "p", "p", "e", "r">>,
      <<"l", "o", "a", "f", "e", "r">>>>

clothingKeywords ==
    <<<<"d", "r", "e", "s", "s">>, <<"s", "h", "i", "r", "t">>,
      <<"p", "a", "n", "t">>, <<"j", "e", "a", "n">>,
      <<"j", "a", "c", "k", "e", "t">>, <<"c", "o", "a", "t">>,
      <<"s", "w", "e", "a", "t", "e", "r">>,
      <<"h", "o", "o", "d", "i", "e">>, <<"t", "s", "h", "i", "r", "t">>,
      <<"t", "-", "s", "h", "i", "r", "t">>,
      <<"b", "l", "o", "u", "s", "e">>, <<"s", "k", "i", "r", "t">>,
      <<"s", "h", "o", "r", "t">>, <<"t", "r", "o", "u", "s", "e", "r">>>>

\* detectCategory
detectCategory(product) ==
    LET text == ToLowerCase(product.title \o <<" ">> \o product.url)
    IN  IF \E k \in 1..Len(shoeKeywords) : Includes(text, shoeKeywords[k])
        THEN "shoes"
        ELSE IF \E k \in 1..Len(clothingKeywords) : Includes(text, clothingKeywords[k])
             THEN "clothes"
             ELSE "other"

InCategory(product) == category = "all" \/ detectCategory(product) = category

\* const filteredProducts = products.filter(...)
filteredProducts == SelectSeq(clientProducts, InCategory)

\* filteredProducts.slice(currentIndex, currentIndex + 3)
visibleCards ==
    SubSeq(filteredProducts, currentIndex + 1,
           IF currentIndex + 3 < Len(filteredProducts)
           THEN currentIndex + 3 ELSE Len(filteredProducts))

\* the products the server may hold for the user: three pages, with a flag
Product(id, title, url, is_favorite) ==
    [id |-> id, title |-> title, url |-> url, is_favorite |-> is_favorite]

Catalogue(is_favorite) ==
    <<Product("id1", <<"S", "h", "o", "e">>, URL_A, is_favorite),
      Product("id2", <<"D", "r", "e", "s", "s">>, URL_B, is_favorite),
      Product("id3", <<"B", "o", "o", "t", "s">>, URL_A \o <<"/", "3">>, is_favorite)>>

\* the lists a request may be answered with: products of distinct ids, in
\* any order; only favorites when the request asks for them
ServerLists(favorites) ==
    LET flags == IF favorites THEN {1} ELSE {0, 1}
        picks == UNION {[1..n -> (1..3) \X flags] : n \in 0..MaxCards}
    IN  {[k \in 1..Len(pick) |-> Catalogue(pick[k][2])[pick[k][1]]] :
            pick \in {q \in picks : \A i, j \in 1..Len(q) :
                                       q[i][1] = q[j][1] => i = j}}

\* Array.from(new Map(combined.map(item => [item.id, item])).values()): a
\* key stays where it came first and holds the value that came last
RECURSIVE Unique(_, _)
Unique(combined, done) ==
    IF combined = <<>> THEN done
    ELSE LET item == Head(combined)
         IN  IF \E k \in 1..Len(done) : done[k].id = item.id
             THEN Unique(Tail(combined),
                         [k \in 1..Len(done) |->
                             IF done[k].id = item.id THEN item ELSE done[k]])
             ELSE Unique(Tail(combined), Append(done, item))

\* the products a card of which is on the screen
OnScreen == IF viewMode = "swipe" THEN visibleCards ELSE filteredProducts

InitClient ==
    /\ ENABLE_DB_CACHE = TRUE
    /\ InitServer
    /\ dRaw = Absent /\ dUrls = <<>> /\ dPc = "off"
    /\ eUrl = <<>> /\ eDoc = <<>> /\ eData = <<>> /\ ePc = "off"
    /\ evicted = {}
    /\ reply = NoReply
    /\ clientProducts = <<>>
    /\ currentIndex = 0
    /\ category = "all"
    /\ showFavorites = FALSE
    /\ viewMode = "grid"

\* fetchProducts, once the list has come: run when the workspace is set
fetchProducts(data) ==
    /\ clientProducts' = data
    /\ currentIndex' = 0
    /\ UNCHANGED <<category, showFavorites, viewMode>>

\* setShowFavorites(!showFavorites), and fetchProducts run by the effect
ToggleShowFavorites(data) ==
    /\ clientProducts # <<>>        \* the controls: products.length > 0 &&
    /\ showFavorites' = ~showFavorites
    /\ clientProducts' = data
    /\ currentIndex' = 0
    /\ UNCHANGED <<category, viewMode>>

setViewMode(mode) ==
    /\ clientProducts # <<>>
    /\ viewMode' = mode
    /\ UNCHANGED <<clientProducts, currentIndex, category, showFavorites>>

\* onClick of a category button: setCategory(c); setCurrentIndex(0)
SelectCategory(c) ==
    /\ clientProducts # <<>>
    /\ category' = c
    /\ currentIndex' = 0
    /\ UNCHANGED <<clientProducts, showFavorites, viewMode>>

handleSwipe ==
    /\ viewMode = "swipe"
    /\ currentIndex' = IF currentIndex < Len(filteredProducts) - 1
                       THEN currentIndex + 1 ELSE currentIndex
    /\ UNCHANGED <<clientProducts, category, showFavorites, viewMode>>

handlePrevious ==
    /\ viewMode = "swipe"
    /\ currentIndex' = IF currentIndex > 0 THEN currentIndex - 1 ELSE currentIndex
    /\ UNCHANGED <<clientProducts, category, showFavorites, viewMode>>

NotId(id, product) == product.id # id

\* handleDelete and confirmDeleteProduct, the DELETE request answered
confirmDeleteProduct(id) ==
    LET Others(product) == NotId(id, product)
    IN  /\ \E k \in 1..Len(OnScreen) : OnScreen[k].id = id
        /\ clientProducts' = SelectSeq(clientProducts, Others)
        /\ currentIndex' = IF currentIndex >= Len(clientProducts) - 1
                           THEN (IF currentIndex - 1 > 0 THEN currentIndex - 1 ELSE 0)
                           ELSE currentIndex
        /\ UNCHANGED <<category, showFavorites, viewMode>>

\* toggleFavorite: the optimistic update of the list
toggleFavorite(id, isFavorite) ==
    LET Others(product) == NotId(id, product)
        updatedProducts ==
            [k \in 1..Len(clientProducts) |->
                IF clientProducts[k].id = id
                THEN [clientProducts[k] EXCEPT
                        !.is_favorite = IF isFavorite THEN 1 ELSE 0]
                ELSE clientProducts[k]]
    IN  /\ \E k \in 1..Len(OnScreen) : OnScreen[k].id = id
        /\ clientProducts' = IF showFavorites /\ ~isFavorite
                             THEN SelectSeq(updatedProducts, Others)
                             ELSE updatedProducts
        /\ UNCHANGED <<currentIndex, category, showFavorites, viewMode>>

\* handleScrape, the POST request answered with newProducts
handleScrape(newProducts) ==
    /\ clientProducts' = Unique(newProducts \o clientProducts, <<>>)
    /\ UNCHANGED <<currentIndex, category, showFavorites, viewMode>>

NextClient ==
    \/ \E data \in ServerLists(showFavorites) :
          fetchProducts(data) /\ UNCHANGED <<svars, dvars, evars, evicted, reply>>
    \/ \E data \in ServerLists(~showFavorites) :
          ToggleShowFavorites(data) /\ UNCHANGED <<svars, dvars, evars, evicted, reply>>
    \/ \E mode \in {"grid", "swipe"} :
          setViewMode(mode) /\ UNCHANGED <<svars, dvars, evars, evicted, reply>>
    \/ \E c \in {"all", "clothes", "shoes"} :
          SelectCategory(c) /\ UNCHANGED <<svars, dvars, evars, evicted, reply>>
    \/ handleSwipe /\ UNCHANGED <<svars, dvars, evars, evicted, reply>>
    \/ handlePrevious /\ UNCHANGED <<svars, dvars, evars, evicted, reply>>
    \/ \E k \in 1..Len(OnScreen) :
          \* ProductCard: onDelete(id)
          confirmDeleteProduct(OnScreen[k].id)
          /\ UNCHANGED <<svars, dvars, evars, evicted, reply>>
    \/ \E k \in 1..Len(OnScreen) :
          \* ProductCard: onToggleFavorite(id, !is_favorite)
          toggleFavorite(OnScreen[k].id, OnScreen[k].is_favorite = 0)
          /\ UNCHANGED <<svars, dvars, evars, evicted, reply>>
    \/ \E k \in 1..3 :
          handleScrape(<<Catalogue(0)[k]>>)
          /\ UNCHANGED <<svars, dvars, evars, evicted, reply>>

SpecClient == InitClient /\ [][NextClient]_vars

----------------------------------------------------------------------------
(* What URL discovery is to yield, stated over whitespace-separated words *)

\* the words of a text: its maximal runs of non-space characters, in order
RECURSIVE WordsOf(_, _)
WordsOf(text, cur) ==
    IF text = <<>> THEN (IF cur = <<>> THEN <<>> ELSE <<cur>>)
    ELSE IF IsSpace(Head(text))
         THEN (IF cur = <<>> THEN <<>> ELSE <<cur>>) \o WordsOf(Tail(text), <<>>)
         ELSE WordsOf(Tail(text), Append(cur, Head(text)))

\* where a URL starts in a word: a scheme with something after it
UrlStarts(word) ==
    {j \in 1..Len(word) :
        \/ HasPrefixAt(word, j, HTTP) /\ j + Len(HTTP) <= Len(word)
        \/ HasPrefixAt(word, j, HTTPS) /\ j + Len(HTTPS) <= Len(word)}

Min(S) == CHOOSE x \in S : \A y \in S : x <= y
Max(S) == CHOOSE x \in S : \A y \in S : x >= y

\* a URL without its trailing run of '.', ',', ';' and ')'
WithoutTrailingRun(u) ==
    SubSeq(u, 1, Max({0} \cup {i \in 1..Len(u) : u[i] \notin TrailingPunct}))

\* the URL occurrences of a text, normalised, in order of appearance
OccurrencesIn(text) ==
    LET ws   == WordsOf(text, <<>>)
        with == SelectSeq(ws, LAMBDA w : UrlStarts(w) # {})
    IN  [i \in 1..Len(with) |->
            WithoutTrailingRun(SubSeq(with[i], Min(UrlStarts(with[i])), Len(with[i])))]

Occurrences(rawInput) ==
    IF rawInput.kind = "array"
    THEN Flatten([i \in 1..Len(rawInput.blocks) |-> OccurrencesIn(rawInput.blocks[i])])
    ELSE IF rawInput.kind = "string" THEN OccurrencesIn(rawInput.text)
    ELSE <<>>

FirstIndex(s, x) == Min({i \in 1..Len(s) : s[i] = x})

NoDuplicates(s) == \A i, j \in 1..Len(s) : i # j => s[i] # s[j]

\* s lists the distinct elements of occ, each once, in first-seen order
FirstSeenOrder(s, occ) ==
    /\ NoDuplicates(s)
    /\ Range(s) = Range(occ)
    /\ \A i, j \in 1..Len(s) : i < j => FirstIndex(occ, s[i]) < FirstIndex(occ, s[j])

\* C10: URL discovery over a string or a sequence of strings yields each URL
\* at most once, in first-seen order; occurrences that are identical or differ
\* only by a trailing run of '.', ',', ';', ')' collapse to one URL, also
\* across the blocks of a sequence input; the example text with the URL twice,
\* once followed by a period, yields exactly https://example.com/a.
C10_DiscoveryDedup ==
    dPc = "done" =>
        /\ FirstSeenOrder(dUrls, Occurrences(dRaw))
        /\ dRaw = StringInput(ExampleText) => dUrls = <<URL_EXAMPLE>>

\* the same URL in two blocks, once with trailing punctuation, is found once
C10_Witness ==
    /\ dPc = "done"
    /\ dRaw = ArrayInput(<<URL_A \o <<".">>, URL_A>>)
    /\ dUrls = <<URL_A>>

----------------------------------------------------------------------------
(* The scrape handler: what its requests show *)

BatchIds == 1..Len(batches)

\* a populated record as against an error stub
IsStub(r) == "error" \in DOMAIN r

\* the request passed requireAuth and the checks of its body
Accepted(b) == b.status \in {0, 200}

\* the positions of request i filled by the step
NewPositions(i) == (Len(batches[i].results) + 1)..Len(batches'[i].results)

\* C1: with caching enabled, a URL whose (id, scope) record is in the product
\* cache when the URL is processed is not fetched, and the stored record is
\* what is appended to the response.
C1_CacheHitNoFetch ==
    ENABLE_DB_CACHE =>
        \A i \in BatchIds : \A k \in 1..Len(batches[i].seen) :
            batches[i].seen[k] # {} =>
                /\ batches[i].urls[k] \notin Range(batches[i].fetched)
                /\ k <= Len(batches[i].results)
                /\ batches[i].results[k] \in batches[i].seen[k]

\* a request answered from the cache alone, after another request stored the row
C1_Witness ==
    \E i \in BatchIds :
        /\ batches[i].status = 200
        /\ batches[i].urls = <<URL_A>>
        /\ batches[i].seen # <<>> /\ batches[i].seen[1] # {}
        /\ batches[i].results[1] \in batches[i].seen[1]
        /\ batches[i].fetched = <<>>

\* C2: the response of an accepted request has exactly one entry per distinct
\* discovered URL, in first-seen order, whatever the mix of cache hits,
\* fetches that succeed and fetches that fail: the entry of a URL whose fetch
\* failed is an error stub at the URL's own position, and no other URL is
\* dropped, reordered or left unprocessed because of it.
C2_OneEntryPerUrl ==
    \A i \in BatchIds :
        LET b == batches[i]
        IN  Accepted(b) =>
                /\ FirstSeenOrder(b.urls, Occurrences(b.raw))
                /\ Len(b.results) <= Len(b.urls)
                /\ b.status = 200 => Len(b.results) = Len(b.urls)
                /\ \A k \in 1..Len(b.results) :
                      /\ b.results[k].url = b.urls[k]
                      /\ b.results[k].id = generateHash(b.urls[k])
                      /\ IsStub(b.results[k]) => b.urls[k] \in Range(b.fetched)

\* a failed fetch first, a populated record after it, in discovery order
C2_Witness ==
    \E i \in BatchIds :
        /\ batches[i].status = 200
        /\ batches[i].urls = <<URL_B, URL_A>>
        /\ IsStub(batches[i].results[1])
        /\ ~IsStub(batches[i].results[2])
        /\ batches[i].fetched = <<URL_B, URL_A>>

\* the step appends an error stub to request i
StubPushed(i) ==
    /\ i \in BatchIds
    /\ Len(batches') = Len(batches)
    /\ NewPositions(i) # {}
    /\ IsStub(batches'[i].results[Len(batches[i].results) + 1])

\* the step is the arrival of a request for a URL in a workspace for which an
\* earlier request of the same user was answered with an error stub, and the
\* arriving request calls axios.get for that URL
RefetchAfterStub ==
    /\ Len(batches') = Len(batches) + 1
    /\ \E i \in BatchIds :
          LET b  == batches[i]
              nb == batches'[Len(batches')]
          IN  /\ b.status = 200 /\ Accepted(nb)
              /\ nb.ws = b.ws /\ nb.raw = b.raw
              /\ \E k \in 1..Len(b.results) :
                    /\ IsStub(b.results[k])
                    /\ b.urls[k] \in Range(nb.fetched)

\* C3 as the claim states it: a failed scrape creates a cache record too, so
\* that the next identical request returns the stored error record without
\* fetching the page again.
C3_FailureIsCached ==
    [][/\ \A i \in BatchIds :
             StubPushed(i) =>
                 RowsOfKey(products', generateHash(Awaited(batches[i])),
                           batches[i].ws) # {}
       /\ ~RefetchAfterStub]_vars

\* C3, amended: only a scrape that succeeded creates a cache record. A
\* scrape that failed leaves the cache as it was, no response entry that is an
\* error stub ever comes from the cache (the request that carries it fetched
\* the page itself), and no cached row is an error record.
C3_FailureIsNotCached ==
    /\ [][\A i \in BatchIds : StubPushed(i) => products' = products]_vars
    /\ [](\A i \in BatchIds : \A k \in 1..Len(batches[i].results) :
             IsStub(batches[i].results[k]) =>
                 /\ batches[i].seen[k] = {}
                 /\ batches[i].urls[k] \in Range(batches[i].fetched))
    /\ [](\A r \in products : r.title # ERROR_TITLE)

\* a request whose only URL failed, and nothing stored for it
C3_Witness ==
    \E i \in BatchIds :
        /\ batches[i].status = 200
        /\ batches[i].urls = <<URL_A>>
        /\ IsStub(batches[i].results[1])
        /\ RowsOfKey(products, generateHash(URL_A), batches[i].ws) = {}

\* the raw input is missing or the empty string
Empty(raw) == raw = Absent \/ raw = StringInput(<<>>)

\* the raw input is a non-empty string in which no URL occurs
TextWithoutUrl(raw) ==
    /\ raw.kind = "string" /\ raw.text # <<>>
    /\ \A i \in 1..Len(WordsOf(raw.text, <<>>)) : UrlStarts(WordsOf(raw.text, <<>>)[i]) = {}

\* the workspaces of the user of a token
OwnWorkspaceIds(token) == {w.id : w \in {v \in workspaces : v.user_id = AuthUser(token)}}

\* the request arriving in the step
Arrived == batches'[Len(batches')]

\* C4: a scrape request whose raw input is the empty string or is absent is
\* answered with a client error and performs no fetch and no cache write; a
\* request whose raw input is a non-empty string containing no URL (and which
\* passes authentication and the check of its workspace) is answered with a
\* successful empty list.
C4_EmptyInputRefused ==
    /\ [][\A t \in Tokens, raw \in ScrapeInputs, scope \in WorkspaceIds :
             ScrapeRequest(t, raw, scope) =>
                 /\ Empty(raw) =>
                       /\ Arrived.status \in {400, 401}
                       /\ Arrived.fetched = <<>> /\ Arrived.results = <<>>
                       /\ products' = products
                 /\ (/\ TextWithoutUrl(raw) /\ Authorized(t)
                     /\ scope \in {0} \cup OwnWorkspaceIds(t)) =>
                       /\ Arrived.status = 200
                       /\ Arrived.results = <<>> /\ Arrived.fetched = <<>>
                       /\ products' = products]_vars
    /\ [](\A i \in BatchIds :
             batches[i].status \in {400, 401} =>
                 /\ batches[i].fetched = <<>>
                 /\ batches[i].writes = <<>>
                 /\ batches[i].results = <<>>)

\* an empty string refused with 400 and a text without URL answered with []
C4_Witness ==
    \E i, j \in BatchIds :
        /\ batches[i].raw = StringInput(<<>>) /\ batches[i].status = 400
        /\ batches[j].raw = StringInput(<<"x">>) /\ batches[j].status = 200
        /\ batches[j].results = <<>>

\* C5 as the claim states it: every request (of an authenticated caller) with
\* non-empty raw input is answered with a success response, whatever scope
\* value the caller supplied.
C5_OnlyEmptyInputFails ==
    \A i \in BatchIds :
        (batches[i].user # 0 /\ ~Empty(batches[i].raw)) => Accepted(batches[i])

\* C5, amended: for an authenticated caller, missing or empty raw input (400)
\* and a workspace_id that names no workspace of the caller (403) are the only
\* cases in which a scrape request fails as a whole; every other request is
\* accepted and, once its loop ends, carries a 200 with one record per URL,
\* whatever the outcomes of its fetches and cache writes.
C5_WholeRequestFailures ==
    /\ [][\A t \in Tokens, raw \in ScrapeInputs, scope \in WorkspaceIds :
             (ScrapeRequest(t, raw, scope) /\ Authorized(t)) =>
                 /\ Arrived.status \in {0, 200, 400, 403}
                 /\ Arrived.status = 400 <=> Empty(raw)
                 /\ Arrived.status = 403 <=>
                       (~Empty(raw) /\ scope \notin {0} \cup OwnWorkspaceIds(t))]_vars
    /\ [][\A i \in BatchIds :
             batches[i].status = 0 => batches'[i].status \in {0, 200}]_vars
    /\ [](\A i \in BatchIds :
             batches[i].status = 200 =>
                 Len(batches[i].results) = Len(batches[i].urls))

\* a request refused for its workspace, and an accepted one that ended with a
\* 200 although a fetch failed and a cache write failed
C5_Witness ==
    \E i, j \in BatchIds :
        /\ batches[i].status = 403 /\ ~Empty(batches[i].raw)
        /\ batches[j].status = 200 /\ Len(batches[j].urls) = 2
        /\ IsStub(batches[j].results[1])
        /\ \E k \in 1..Len(batches[j].writes) : ~batches[j].writes[k].ok

\* the step is a failed cache write of request i
FailedWrite(i) ==
    /\ i \in BatchIds
    /\ Len(batches') = Len(batches)
    /\ Len(batches'[i].writes) = Len(batches[i].writes) + 1
    /\ ~batches'[i].writes[Len(batches'[i].writes)].ok

\* C6: if the cache write of a freshly extracted record fails, the request
\* still succeeds: the response has the populated record (no error) at the
\* position of its URL, the rest of the batch is still processed, and the
\* failed write leaves the cache as it was.
C6_WriteFailureOnlyLogged ==
    /\ [][\A i \in BatchIds :
             FailedWrite(i) =>
                 LET k == Len(batches[i].results) + 1
                 IN  /\ products' = products
                     /\ ~IsStub(batches'[i].results[k])
                     /\ batches'[i].results[k].url = batches[i].urls[k]
                     /\ batches'[i].status \in {0, 200}
                     /\ batches'[i].status = 200 =>
                           Len(batches'[i].results) = Len(batches[i].urls)
                     /\ batches'[i].status = 0 =>
                           Len(batches'[i].fetched) = Len(batches[i].fetched) + 1]_vars
    /\ [](\A i \in BatchIds : \A n \in 1..Len(batches[i].writes) :
             ~batches[i].writes[n].ok =>
                 /\ Accepted(batches[i])
                 /\ \A k \in 1..Len(batches[i].results) :
                       batches[i].results[k].url = batches[i].writes[n].url =>
                           ~IsStub(batches[i].results[k]))

\* a request of two URLs whose first write failed: both are in the response,
\* none of them a stub, and only the second one is stored
C6_Witness ==
    \E i \in BatchIds :
        /\ batches[i].status = 200
        /\ batches[i].urls = <<URL_B, URL_A>>
        /\ batches[i].writes = <<[url |-> URL_B, ok |-> FALSE], [url |-> URL_A, ok |-> TRUE]>>
        /\ ~IsStub(batches[i].results[1]) /\ ~IsStub(batches[i].results[2])
        /\ RowsOfKey(products, generateHash(URL_B), batches[i].ws) = {}
        /\ RowsOfKey(products, generateHash(URL_A), batches[i].ws) # {}

\* the step is a cache write of request i that the database took
StoredBy(i) ==
    /\ i \in BatchIds
    /\ Len(batches') = Len(batches)
    /\ Len(batches'[i].writes) = Len(batches[i].writes) + 1
    /\ batches'[i].writes[Len(batches'[i].writes)].ok

\* C7: in every reachable state, after any interleaving of scrape, delete
\* and favorite operations, the product cache holds at most one record per
\* (id, workspace) pair: scraping a URL already stored in the workspace
\* replaces its record and never adds a second one.
C7_OneRecordPerKey ==
    /\ [](\A r, q \in products :
             (r.id = q.id /\ r.workspace_id = q.workspace_id) => r = q)
    /\ [][\A i \in BatchIds :
             StoredBy(i) =>
                 Cardinality(RowsOfKey(products', generateHash(Awaited(batches[i])),
                                       batches[i].ws)) = 1]_vars

\* two requests in flight together stored the same URL in the same
\* workspace, one after the other: one record remains
C7_Witness ==
    /\ Len(batches) = 2
    /\ batches[1].ws = batches[2].ws
    /\ batches[1].writes = <<[url |-> URL_A, ok |-> TRUE]>>
    /\ batches[2].writes = <<[url |-> URL_A, ok |-> TRUE]>>
    /\ batches[1].fetched = <<URL_A>> /\ batches[2].fetched = <<URL_A>>
    /\ Cardinality(RowsOfKey(products, generateHash(URL_A), batches[1].ws)) = 1

\* the rows of the table outside a workspace
RowsOutside(rows, workspaceId) == {r \in rows : r.workspace_id # workspaceId}

\* C8: the cache is keyed by (id, workspace): a record stored for a URL in
\* one workspace is never returned as a cache hit for a scrape of the URL in
\* another workspace (every returned record is of the workspace of the
\* request, and a URL with no record in that workspace is fetched), and a
\* scrape writes to its own workspace only, so that the records of one URL in
\* two workspaces are independent.
C8_KeyedByIdAndScope ==
    /\ [](\A i \in BatchIds : \A k \in 1..Len(batches[i].results) :
             /\ ~IsStub(batches[i].results[k]) =>
                   batches[i].results[k].workspace_id = batches[i].ws
             /\ batches[i].seen[k] = {} =>
                   batches[i].urls[k] \in Range(batches[i].fetched))
    /\ [][\A i \in BatchIds :
             Len(batches'[i].results) > Len(batches[i].results) =>
                 RowsOutside(products', batches[i].ws)
                     = RowsOutside(products, batches[i].ws)]_vars

\* the same URL scraped in two workspaces, the second request fetching it
\* although the first workspace holds a record: two records, one of them
\* marked favorite and the other not
C8_Witness ==
    /\ Len(batches) = 2
    /\ batches[1].ws # batches[2].ws
    /\ batches[1].urls = <<URL_A>> /\ batches[2].urls = <<URL_A>>
    /\ batches[1].fetched = <<URL_A>> /\ batches[2].fetched = <<URL_A>>
    /\ batches[1].status = 200 /\ batches[2].status = 200
    /\ \E r \in RowsOfKey(products, generateHash(URL_A), batches[1].ws) : r.is_favorite = 1
    /\ \E r \in RowsOfKey(products, generateHash(URL_A), batches[2].ws) : r.is_favorite = 0

\* C9: deleting a product by id removes only the record of that id in the
\* workspace of the request, a workspace of the caller: every record of the
\* same id in another workspace, workspaces of other users included, is left
\* unchanged, and a delete that matches no record of the caller changes
\* nothing.
C9_DeleteOnlyInScope ==
    [][\A t \in Tokens, id \in ProductIds :
          DeleteProduct(t, id) =>
              /\ Cardinality(products \ products') <= 1
              /\ \A r \in products \ products' :
                    r.id = id /\ r.workspace_id \in OwnWorkspaceIds(t)
              /\ products' \subseteq products
              /\ OwnedProducts(id, AuthUser(t)) = {} => products' = products]_vars


----------------------------------------------------------------------------
(* Field extraction: what the record built from a document holds *)

\* a text without the whitespace around it
Stripped(text) ==
    LET inner == {i \in 1..Len(text) : ~IsSpace(text[i])}
    IN  IF inner = {} THEN <<>> ELSE SubSeq(text, Min(inner), Max(inner))

\* what a selected element yields: an image element its src (or data-src),
\* any other element its text without the whitespace around it
ValueOf(el) ==
    IF el.isImg /\ el.src # <<>> THEN el.src
    ELSE IF el.isImg /\ el.dataSrc # <<>> THEN el.dataSrc
    ELSE Stripped(el.text)

\* the first non-empty value the selectors of a list yield, in their order
SelectorValue(doc, selectors) ==
    LET found == {i \in 1..Len(selectors) : ValueOf(First(doc, selectors[i])) # <<>>}
    IN  IF found = {} THEN <<>> ELSE ValueOf(First(doc, selectors[Min(found)]))

\* the positions of the JSON-LD blocks of a document that yield a price
PricedBlocks(doc) == {i \in 1..Len(doc.jsonLd) : BlockPrice(doc.jsonLd[i]) # <<>>}

\* the price of the meta tags of a document, with "$" for a missing currency
MetaPrice(doc) ==
    (IF doc.ogCurrency # <<>> THEN doc.ogCurrency ELSE <<"$">>) \o doc.ogPrice

\* C12: price extraction respects the order profile selectors > JSON-LD
\* offers > price meta tags > "Check Site": a selector value is the price
\* whatever JSON-LD and meta tags carry; without one, a price of the JSON-LD
\* blocks is used before the one of the meta tags; when no tier yields a
\* value the price is exactly "Check Site".
C12_PriceFallbackOrder ==
    ePc = "done" =>
        LET selected == SelectorValue(eDoc, getSiteConfig(eUrl).priceSelectors)
            priced   == PricedBlocks(eDoc)
        IN  /\ selected # <<>> => eData.price = selected
            /\ (selected = <<>> /\ priced # {}) =>
                  eData.price \in {BlockPrice(eDoc.jsonLd[i]) : i \in priced}
            /\ (selected = <<>> /\ priced = {} /\ eDoc.ogPrice # <<>>) =>
                  eData.price = MetaPrice(eDoc)
            /\ (selected = <<>> /\ priced = {} /\ eDoc.ogPrice = <<>>) =>
                  eData.price = CHECK_SITE

\* a page of a profiled site with a price in all three tiers
C12_Witness ==
    /\ ePc = "done"
    /\ eUrl = URL_FLIPKART
    /\ SelectorValue(eDoc, getSiteConfig(eUrl).priceSelectors) = <<"T", "2">>
    /\ PricedBlocks(eDoc) # {}
    /\ eDoc.ogPrice # <<>>
    /\ eData.price = <<"T", "2">>

\* C17: in the JSON-LD tier, the first block in document order that yields
\* a Product/ProductGroup offer price determines the price; a later block
\* with a valid price never replaces it.
C17_FirstJsonLdBlockWins ==
    (/\ ePc = "done"
     /\ SelectorValue(eDoc, getSiteConfig(eUrl).priceSelectors) = <<>>
     /\ PricedBlocks(eDoc) # {}) =>
        eData.price = BlockPrice(eDoc.jsonLd[Min(PricedBlocks(eDoc))])

\* a JSON-LD block that is skipped: it does not parse, or it parses to
\* something that is not a Product or ProductGroup object
Unusable(block) ==
    \/ ~block.parsed
    \/ block.data.json \in {"null", "other"}
    \/ block.data.json = "object" /\ block.data.type \notin {"Product", "ProductGroup"}

WithoutUnusable(doc) ==
    [doc EXCEPT !.jsonLd = SelectSeq(@, LAMBDA block : ~Unusable(block))]

\* C19: a JSON-LD block that is malformed or unexpected is skipped silently:
\* the record is populated (no error stub), its price is the one the page
\* gives without those blocks (the other blocks are still examined), and when
\* no block is usable and no selector yields a price, the meta tags and then
\* "Check Site" give it.
C19_BadJsonLdSkipped ==
    ePc = "done" =>
        /\ ~("error" \in DOMAIN eData)
        /\ eData.price = extractPrice(WithoutUnusable(eDoc), getSiteConfig(eUrl))
        /\ (/\ SelectorValue(eDoc, getSiteConfig(eUrl).priceSelectors) = <<>>
            /\ \A i \in 1..Len(eDoc.jsonLd) : Unusable(eDoc.jsonLd[i])) =>
              eData.price = IF eDoc.ogPrice # <<>> THEN MetaPrice(eDoc) ELSE CHECK_SITE

\* a block that does not parse before a block with a price: the price is used
C19_Witness ==
    /\ ePc = "done"
    /\ eUrl = URL_PLAIN
    /\ eDoc.jsonLd = <<[parsed |-> FALSE], Parsed(PRODUCT_5)>>
    /\ eDoc.ogPrice # <<>>
    /\ eData.price = <<"U", "S", "D", " ", "5">>

\* C20: the title is the first non-empty value of the profile's
\* titleSelectors in their order, else the og:title meta tag, else the title
\* element, else "No Title", and it is stored without surrounding
\* whitespace; a profile selector value wins over og:title and the title
\* element.
C20_TitleChain ==
    ePc = "done" =>
        LET selected == SelectorValue(eDoc, getSiteConfig(eUrl).titleSelectors)
            chosen   == IF selected # <<>> THEN selected
                        ELSE IF eDoc.ogTitle # <<>> THEN eDoc.ogTitle
                        ELSE IF eDoc.title # <<>> THEN eDoc.title
                        ELSE NO_TITLE
        IN  /\ eData.title = Stripped(chosen)
            /\ eData.title # <<>> =>
                  /\ ~IsSpace(eData.title[1])
                  /\ ~IsSpace(eData.title[Len(eData.title)])

\* the first title selector selects only whitespace, the second one a text,
\* and the page has an og:title and a title element as well
C20_Witness ==
    /\ ePc = "done"
    /\ eUrl = URL_FLIPKART
    /\ First(eDoc, ".B_NuCI").text = <<" ", "\n">>
    /\ First(eDoc, "h1._3wtzKS").text = <<"T", "2">>
    /\ eDoc.ogTitle = <<"O", "g", " ">>
    /\ eDoc.title # <<>>
    /\ eData.title = <<"T", "2">>


----------------------------------------------------------------------------
(* The product cache under scrapes and CRUD operations *)

\* the (id, workspace) keys of a set of rows
Keys(rows) == {[id |-> r.id, workspace_id |-> r.workspace_id] : r \in rows}

\* the step is a step of the scrape handler (an arrival or the end of a fetch)
ScrapeStep == batches' # batches

\* the step belongs to request i, which was waiting for a fetch
StepOf(i) ==
    /\ i \in BatchIds
    /\ Len(batches') = Len(batches)
    /\ batches'[i] # batches[i]

\* C14: the favorite flag is owned by the CRUD layer: a record created by a
\* scrape has is_favorite false, and no step of a scrape changes the flag of
\* an existing record, also not the write of a request that had missed the
\* cache before the record was written and marked.
C14_FavoriteOwnedByCrud ==
    [][ScrapeStep =>
          /\ \A q \in products' \ products : q.is_favorite = 0
          /\ \A r \in products :
                \A q \in RowsOfKey(products', r.id, r.workspace_id) :
                    q.is_favorite = r.is_favorite]_vars

\* C15: the scrape handler never deletes a cache record: after each of its
\* steps the cache holds every (id, workspace) key it held before; a step
\* that removes a key is a product delete or a workspace delete.
C15_CoreNeverDeletes ==
    [][/\ ScrapeStep => Keys(products) \subseteq Keys(products')
       /\ ~(Keys(products) \subseteq Keys(products')) =>
             \/ \E t \in Tokens, id \in ProductIds : DeleteProduct(t, id)
             \/ \E t \in Tokens, w \in WorkspaceIds : DeleteWorkspace(t, w)]_vars

\* a request whose fetch failed after another request had stored the URL:
\* the stub is in the response and the record is still there
C15_Witness ==
    \E i, j \in BatchIds :
        /\ batches[i].ws = batches[j].ws
        /\ batches[i].urls = <<URL_A>> /\ batches[j].urls = <<URL_A>>
        /\ batches[i].status = 200 /\ IsStub(batches[i].results[1])
        /\ batches[j].writes = <<[url |-> URL_A, ok |-> TRUE]>>
        /\ RowsOfKey(products, generateHash(URL_A), batches[i].ws) # {}

\* C18 as the claim states it: every scrape of a URL that is already stored
\* in the scope performs a cache write for it.
C18_EveryScrapeWrites ==
    \A i \in BatchIds : \A k \in 1..Len(batches[i].results) :
        batches[i].seen[k] # {} =>
            \E n \in 1..Len(batches[i].writes) :
                batches[i].writes[n].url = batches[i].urls[k]

\* C18, amended: a scrape of a URL that is stored in the scope when it is
\* looked up is a cache hit and performs no cache write; only a request that
\* missed the cache writes, to the record of the URL it fetched alone, and
\* that write replaces whatever record of the pair was stored meanwhile.
C18_OnlyMissesWrite ==
    /\ [](\A i \in BatchIds : \A k \in 1..Len(batches[i].results) :
             batches[i].seen[k] # {} =>
                 \A n \in 1..Len(batches[i].writes) :
                     batches[i].writes[n].url # batches[i].urls[k])
    /\ [][/\ Len(batches') > Len(batches) => products' = products
          /\ \A i \in BatchIds :
                StepOf(i) =>
                    LET k   == Len(batches[i].results) + 1
                        key == RowsOfKey(products, generateHash(Awaited(batches[i])),
                                         batches[i].ws)
                    IN  /\ products' \ products \subseteq {batches'[i].results[k]}
                        /\ products \ products' \subseteq key
                        /\ StoredBy(i) =>
                              RowsOfKey(products', generateHash(Awaited(batches[i])),
                                        batches[i].ws) = {batches'[i].results[k]}]_vars

\* one request fetched and stored the URL, another one was answered from the
\* record without a write
C18_Witness ==
    \E i, j \in BatchIds :
        /\ batches[i].ws = batches[j].ws
        /\ batches[i].writes = <<[url |-> URL_A, ok |-> TRUE]>>
        /\ batches[j].status = 200 /\ batches[j].urls = <<URL_A>>
        /\ batches[j].seen[1] # {}
        /\ batches[j].writes = <<>>
        /\ batches[j].results[1] \in products


\* the record stands in the response of a request that fetched its URL and
\* whose write the database took
WrittenBy(i, record) ==
    \E k \in 1..Len(batches[i].results) :
        /\ batches[i].results[k] = record
        /\ batches[i].urls[k] \in Range(batches[i].fetched)
        /\ \E n \in 1..Len(batches[i].writes) :
              batches[i].writes[n] = [url |-> batches[i].urls[k], ok |-> TRUE]

\* C13: under any interleaving of scrape requests in flight (for the same or
\* different workspaces) and CRUD operations, every cache row is one complete
\* record as one write of one request stored it (apart from the favorite
\* flag, which the CRUD layer sets), never a mix of two writes, and after
\* each write the row of its (id, workspace) is the record just written.
C13_LastWriteWins ==
    /\ [](\A r \in products :
             \E i \in BatchIds : WrittenBy(i, [r EXCEPT !.is_favorite = 0]))
    /\ [][\A i \in BatchIds :
             StoredBy(i) =>
                 /\ RowsOfKey(products', generateHash(Awaited(batches[i])), batches[i].ws)
                       = {batches'[i].results[Len(batches[i].results) + 1]}
                 /\ RowsOutside(products', batches[i].ws) = RowsOutside(products, batches[i].ws)
                 /\ \A r \in products :
                       r.id # generateHash(Awaited(batches[i])) => r \in products']_vars

\* two requests stored different pages of one URL in one workspace: the row
\* is the record of one of them
C13_Witness ==
    /\ Len(batches) = 2
    /\ batches[1].ws = batches[2].ws
    /\ batches[1].urls = <<URL_A>> /\ batches[2].urls = <<URL_A>>
    /\ batches[1].status = 200 /\ batches[2].status = 200
    /\ batches[1].writes # <<>> /\ batches[2].writes # <<>>
    /\ batches[1].results[1].title # batches[2].results[1].title
    /\ RowsOfKey(products, generateHash(URL_A), batches[1].ws) = {batches[1].results[1]}

\* the scrape request that arrived first after a deletion
NextAfter(e) == e.arrived + 1

\* no request that arrived after request j has stored the URL in its workspace
NotStoredSince(j, url) ==
    \A i \in (j + 1)..Len(batches) :
        batches[i].ws = batches[j].ws =>
            \A n \in 1..Len(batches[i].writes) :
                batches[i].writes[n] # [url |-> url, ok |-> TRUE]

\* C16: after the CRUD layer has deleted the record of (id, workspace), the
\* next scrape of the URL in the workspace is a cache miss: the delete leaves
\* no record of the id in the caller's workspaces, the page is fetched again
\* and, on success, a fresh record with is_favorite false is stored and
\* returned.
C16_DeleteThenMiss ==
    /\ [][\A t \in Tokens, id \in ProductIds :
             (DeleteProduct(t, id) /\ OwnedProducts(id, AuthUser(t)) # {}) =>
                 \A w \in OwnWorkspaceIds(t) : RowsOfKey(products', id, w) = {}]_vars
    /\ [](\A e \in evicted :
             LET j == NextAfter(e)
             IN  (/\ j <= Len(batches)
                  /\ Accepted(batches[j])
                  /\ batches[j].ws = e.workspace_id) =>
                     \A k \in 1..Len(batches[j].seen) :
                         (/\ generateHash(batches[j].urls[k]) = e.id
                          /\ NotStoredSince(j, batches[j].urls[k])) =>
                             /\ batches[j].seen[k] = {}
                             /\ batches[j].urls[k] \in Range(batches[j].fetched)
                             /\ (k <= Len(batches[j].results)
                                 /\ ~IsStub(batches[j].results[k])) =>
                                   batches[j].results[k].is_favorite = 0)
    /\ [][\A i \in BatchIds :
             StoredBy(i) =>
                 \E r \in products' :
                     /\ r = batches'[i].results[Len(batches[i].results) + 1]
                     /\ r.is_favorite = 0]_vars

\* the record of a URL was deleted while nothing was in flight, and the next
\* request fetched the URL again, stored it and returned it
C16_Witness ==
    \E e \in evicted :
        /\ e.arrived = 1 /\ Len(batches) = 2
        /\ e.id = generateHash(URL_A)
        /\ batches[2].ws = e.workspace_id
        /\ batches[2].urls = <<URL_A>>
        /\ batches[2].status = 200
        /\ batches[2].seen = <<{}>>
        /\ batches[2].fetched = <<URL_A>>
        /\ batches[2].results[1].is_favorite = 0
        /\ batches[2].results[1] \in products

----------------------------------------------------------------------------
(* Repeating a scrape request *)

\* the request was answered with a record for every URL, each of them in the
\* table: none is an error stub and no write failed
AllStored(b) ==
    /\ b.status = 200
    /\ \A k \in 1..Len(b.results) : ~IsStub(b.results[k])
    /\ \A k \in 1..Len(b.writes) : b.writes[k].ok

\* C11 as stated: repeating the same scrape request in the same scope, with
\* no other operation in between, returns the same sequence of records as the
\* first request, and no step of the repetition changes the cache.
C11_RepeatIsIdempotent ==
    /\ [](Len(batches) = 2 /\ batches[2].status # 0
             => batches[2].results = batches[1].results)
    /\ [][Len(batches') = 2 => products' = products]_vars

\* C11, amended: when the first request left every one of its URLs stored
\* (each was a cache hit, or was fetched and its record written), its
\* repetition in the same scope with no other operation in between is
\* answered at once from the cache with the same sequence of records, without
\* a fetch and without a write, and leaves the cache as it was; a request
\* that was refused is refused again the same way. A URL whose fetch or cache
\* write failed in the first request is fetched again by the repetition.
C11_RepeatOfStoredIsIdempotent ==
    /\ [](Len(batches) = 2 /\ AllStored(batches[1])
             => /\ batches[2].status = 200
                /\ batches[2].results = batches[1].results
                /\ batches[2].fetched = <<>>
                /\ batches[2].writes = <<>>)
    /\ [](Len(batches) = 2 /\ batches[1].status \in {400, 403}
             => batches[2] = batches[1])
    /\ [](Len(batches) = 2 /\ batches[2].status # 0 /\ ~AllStored(batches[1])
                            /\ batches[1].status = 200
             => batches[2].fetched # <<>>)
    /\ [][Len(batches') = 2 /\ AllStored(batches[1]) => products' = products]_vars

\* a request of two URLs, one fetched and stored and one served from a
\* favorited row, has been repeated and answered the same
C11_Witness ==
    /\ Len(batches) = 2
    /\ AllStored(batches[1])
    /\ Len(batches[1].results) = 2
    /\ Len(batches[1].fetched) = 1
    /\ batches[1].results[2].is_favorite = 1
    /\ batches[2].results = batches[1].results

----------------------------------------------------------------------------
(* Site-profile matching *)

\* the positions in the registry of the profiles one of whose domain matchers
\* occurs in the text
Matching(text) ==
    {i \in 1..Len(SITE_CONFIGS) :
        \E k \in 1..Len(SITE_CONFIGS[i].domains) :
            \E j \in 1..Len(text) :
                /\ j + Len(SITE_CONFIGS[i].domains[k]) - 1 <= Len(text)
                /\ SubSeq(text, j, j + Len(SITE_CONFIGS[i].domains[k]) - 1)
                       = SITE_CONFIGS[i].domains[k]}

\* C21: getSiteConfig(url) returns the first profile in registration order
\* one of whose domain matchers is a substring of the lowercased URL, returns
\* none when no matcher occurs in it, and gives the same result for URLs that
\* differ only in letter case.
C21_FirstMatchCaseInsensitive ==
    ePc = "matched" =>
        LET hits == Matching(ToLowerCase(eUrl))
        IN  /\ hits = {} => eData = NoSiteConfig
            /\ hits # {} => /\ \E i \in hits : eData = SITE_CONFIGS[i]
                            /\ \A i \in hits, j \in 1..Len(SITE_CONFIGS) :
                                  eData = SITE_CONFIGS[i] => (j < i => j \notin hits)
            /\ \A other \in ProfileUrls :
                  ToLowerCase(other) = ToLowerCase(eUrl)
                      => getSiteConfig(other) = eData

\* a URL written in capitals that holds matchers of two profiles got the
\* profile registered first, though its matcher comes later in the URL
C21_Witness ==
    /\ ePc = "matched"
    /\ eUrl = <<"A", "J", "I", "O", "A", "M", "A", "Z", "O", "N">>
    /\ eData.name = "amazon"

----------------------------------------------------------------------------
(* The favorite flag across users *)

\* C24: toggling the favorite flag of a product id by an authenticated user
\* changes is_favorite only on records in workspaces owned by that user:
\* records of the same id in workspaces of other users stay as they are, and
\* a request for an id the user owns no record of changes nothing.
C24_FavoriteOnlyOwnRecords ==
    [][\A t \in Tokens, id \in ProductIds, f \in BOOLEAN :
          ToggleFavorite(t, id, f) =>
              /\ \A r \in products :
                    r.workspace_id \notin OwnWorkspaceIds(t) => r \in products'
              /\ OwnedProducts(id, AuthUser(t)) = {} => products' = products]_vars

----------------------------------------------------------------------------
(* Workspaces of other users *)

\* the workspace is there and belongs to somebody else
OwnedByAnother(workspaceId, userId) ==
    \E w \in workspaces : w.id = workspaceId /\ w.user_id # userId

\* the request did nothing but answer: no lookup, no fetch, no write
OnlyAnswered(b) ==
    b.results = <<>> /\ b.seen = <<>> /\ b.fetched = <<>> /\ b.writes = <<>>

\* no request reads or writes a record in a workspace of another user:
\* its workspace is not one, all it looked up and returned is of its
\* workspace, and its steps change records of its workspace only
StaysInOwnWorkspace ==
    /\ [](\A i \in BatchIds :
            Accepted(batches[i]) =>
                /\ ~OwnedByAnother(batches[i].ws, batches[i].user)
                /\ \A k \in 1..Len(batches[i].seen) :
                      \A r \in batches[i].seen[k] : r.workspace_id = batches[i].ws
                /\ \A k \in 1..Len(batches[i].results) :
                      ~IsStub(batches[i].results[k])
                          => batches[i].results[k].workspace_id = batches[i].ws)
    /\ [][\A i \in BatchIds :
            StepOf(i) =>
                \A r \in (products \ products') \cup (products' \ products) :
                    r.workspace_id = batches[i].ws]_vars

\* GET /api/products sends only records of workspaces of the caller
ListsOwnRecords ==
    [](reply.op = "products" =>
          /\ reply.status = 401 => reply.body = {}
          /\ \A r \in reply.body :
                \E w \in workspaces :
                    /\ w.id = r.workspace_id
                    /\ w.user_id = AuthUser(reply.token))

\* C25 as stated: a scrape request naming a workspace_id that is not owned by
\* the authenticated user is rejected with 403 before any cache lookup, fetch
\* or write; no scrape reads or writes a product record in a workspace owned
\* by another user; listing products returns only records in workspaces owned
\* by the caller.
C25_ForeignWorkspaceIs403 ==
    /\ [][\A t \in Tokens, raw \in AnswerInputs, scope \in WorkspaceIds :
            (/\ ScrapeRequest(t, raw, scope)
             /\ AuthUser(t) # 0 /\ scope # 0
             /\ scope \notin OwnWorkspaceIds(t))
                => /\ Arrived.status = 403
                   /\ OnlyAnswered(Arrived)
                   /\ products' = products]_vars
    /\ StaysInOwnWorkspace
    /\ ListsOwnRecords

\* C25, amended: a scrape request naming a workspace_id that is not owned by
\* the authenticated user is rejected before any cache lookup, fetch or
\* write: with 400 when its urls value is missing or empty (that check comes
\* first), with 403 otherwise; no scrape reads or writes a product record in
\* a workspace owned by another user; listing products returns only records
\* in workspaces owned by the caller.
C25_ForeignWorkspaceRefused ==
    /\ [][\A t \in Tokens, raw \in AnswerInputs, scope \in WorkspaceIds :
            (/\ ScrapeRequest(t, raw, scope)
             /\ AuthUser(t) # 0 /\ scope # 0
             /\ scope \notin OwnWorkspaceIds(t))
                => /\ Arrived.status = IF Empty(raw) THEN 400 ELSE 403
                   /\ OnlyAnswered(Arrived)
                   /\ products' = products]_vars
    /\ StaysInOwnWorkspace
    /\ ListsOwnRecords

\* a request for a workspace of another user, which holds a record, was
\* answered 403, and the list the caller was sent next is empty
C25_Witness ==
    \E i \in BatchIds :
        /\ batches[i].status = 403
        /\ OwnedByAnother(batches[i].scope, batches[i].user)
        /\ \E r \in products : r.workspace_id = batches[i].scope
        /\ reply.op = "products" /\ reply.status = 200 /\ reply.body = {}
        /\ AuthUser(reply.token) = batches[i].user

----------------------------------------------------------------------------
(* Sessions *)

\* the handlers behind requireAuth that answer in one step
ProtectedOps ==
    {"me", "logout", "products", "workspaces", "deleteProduct",
     "createWorkspace", "deleteWorkspace", "favorite"}

\* the token is one of a session
InSessions(token) == \E s \in sessions : s.token = token

\* the step is the answer of a handler to a request with the token
AnswersTo(token) == reply' # reply /\ reply'.token = token

\* C26: with the database enabled, every protected endpoint called with no
\* token or with a token that is not in the sessions table answers 401 and
\* changes no state (a scrape request so called is answered 401 without any
\* lookup, fetch or write, and every change of a table comes with the answer
\* to a request whose token was in the table, or is a registration, a login
\* or a step of an accepted scrape); after POST /api/logout with a token the
\* token is in no session, and a token that was handed out and is in no
\* session is never in one again, so every later request with it is rejected.
C26_NoSessionNoAccess ==
    /\ [][\A t \in Tokens :
            (AnswersTo(t) /\ reply'.op \in ProtectedOps /\ ~InSessions(t))
                => reply'.status = 401 /\ UNCHANGED svars]_vars
    /\ [][\A t \in Tokens, raw \in AnswerInputs, scope \in WorkspaceIds :
            (ScrapeRequest(t, raw, scope) /\ ~InSessions(t))
                => /\ Arrived.status = 401
                   /\ OnlyAnswered(Arrived)
                   /\ UNCHANGED dbvars]_vars
    /\ [](\A i \in BatchIds : Accepted(batches[i]) => batches[i].user # 0)
    /\ [][dbvars' # dbvars =>
            \/ reply'.op \in {"register", "login"}
            \/ reply'.op \in ProtectedOps /\ InSessions(reply'.token)
            \/ \E i \in BatchIds : StepOf(i)]_vars
    /\ [][\A t \in Tokens :
            (AnswersTo(t) /\ reply'.op = "logout" /\ reply'.status = 200)
                => \A s \in sessions' : s.token # t]_vars
    /\ [][\A t \in 1..(nextToken - 1) :
            ~InSessions(t) => \A s \in sessions' : s.token # t]_vars

\* a token that was handed out and logged out was sent with a later request
\* for the products, which was answered 401
C26_Witness ==
    /\ reply.op = "products" /\ reply.status = 401
    /\ reply.token \in 1..(nextToken - 1)
    /\ ~InSessions(reply.token)

----------------------------------------------------------------------------
(* Users and their workspaces *)

\* C27: every registered user owns at least one workspace in every reachable
\* state: a registration creates the user together with one workspace, and
\* DELETE /api/workspaces/:id of a signed-in caller is refused with 404 and
\* no change when the target is not a workspace of the caller, refused with
\* 400 and no change when it is the caller's only workspace, and removes
\* just that workspace otherwise.
C27_EveryUserHasWorkspace ==
    /\ [](\A u \in users : \E w \in workspaces : w.user_id = u.id)
    /\ [][\A u \in users' \ users :
            /\ reply'.op = "register" /\ reply'.status = 200
            /\ Cardinality({w \in workspaces' \ workspaces : w.user_id = u.id}) = 1]_vars
    /\ [][\A t \in Tokens, id \in WorkspaceIds :
            (/\ AnswersTo(t) /\ reply'.op = "deleteWorkspace" /\ reply'.arg = id
             /\ InSessions(t))
                => /\ id \notin OwnWorkspaceIds(t)
                        => reply'.status = 404 /\ UNCHANGED svars
                   /\ OwnWorkspaceIds(t) = {id}
                        => reply'.status = 400 /\ UNCHANGED svars
                   /\ (id \in OwnWorkspaceIds(t) /\ OwnWorkspaceIds(t) # {id})
                        => /\ reply'.status = 200
                           /\ workspaces' = {w \in workspaces : w.id # id}]_vars

\* with a second user registered, a user who owns one workspace asked for
\* its deletion and was answered 400
C27_Witness ==
    /\ Cardinality(users) = 2
    /\ reply.op = "deleteWorkspace" /\ reply.status = 400
    /\ {w.id : w \in WorkspacesOf(AuthUser(reply.token))} = {reply.arg}

----------------------------------------------------------------------------
(* Records and the workspaces they are in *)

\* the workspace of the request is no longer in the table
WorkspaceGone(b) == \A w \in workspaces : w.id # b.ws

\* C28: deleting a workspace removes all of its product records, and in every
\* reachable state every product record's workspace_id names an existing
\* workspace, also when a scrape batch for that workspace is still in flight
\* at the time of the deletion: the write of a page fetched afterwards fails
\* and changes nothing, while the record is still in the response and the
\* batch goes on.
C28_NoOrphanRecords ==
    /\ [](\A r \in products : \E w \in workspaces : w.id = r.workspace_id)
    /\ [][\A w \in workspaces \ workspaces' :
            \A r \in products' : r.workspace_id # w.id]_vars
    /\ [][\A i \in BatchIds :
            (/\ StepOf(i) /\ WorkspaceGone(batches[i])
             /\ Len(batches'[i].writes) > Len(batches[i].writes))
                => LET k == Len(batches[i].results) + 1
                   IN  /\ Len(batches'[i].writes) = Len(batches[i].writes) + 1
                       /\ ~batches'[i].writes[Len(batches'[i].writes)].ok
                       /\ products' = products
                       /\ ~IsStub(batches'[i].results[k])
                       /\ batches'[i].results[k].workspace_id = batches[i].ws
                       /\ batches'[i].status \in {0, 200}]_vars

\* a request was answered with a record for a workspace that was deleted
\* while the page was fetched; the write failed and the table is empty
C28_Witness ==
    \E i \in BatchIds :
        /\ batches[i].status = 200
        /\ WorkspaceGone(batches[i])
        /\ Len(batches[i].results) = 1 /\ ~IsStub(batches[i].results[1])
        /\ batches[i].writes = <<[url |-> batches[i].urls[1], ok |-> FALSE]>>
        /\ products = {}

----------------------------------------------------------------------------
(* One URL at a time *)

\* the positions of the request whose lookup missed the cache
Missed(b) == {k \in 1..Len(b.seen) : b.seen[k] = {}}

\* the fetches the request has started and that have not ended
FetchesInFlight(b) ==
    Len(b.fetched) - Cardinality({k \in Missed(b) : k <= Len(b.results)})

\* C22: within one batch URLs are processed strictly one at a time: a request
\* has looked up its URLs in order up to the one it is at, has one fetch in
\* flight while it waits and none once it has answered, and a step that
\* starts the lookup of further URLs is the step in which the fetch of the
\* current one ended with its record or stub appended (and its write, if
\* any, done).
C22_OneUrlAtATime ==
    /\ [](\A i \in BatchIds :
            Accepted(batches[i]) =>
                LET b == batches[i]
                IN  /\ FetchesInFlight(b) = IF b.status = 0 THEN 1 ELSE 0
                    /\ Len(b.seen) = Len(b.results) + FetchesInFlight(b)
                    /\ Len(b.seen) <= Len(b.urls)
                    /\ b.status = 0 => Len(b.seen) \in Missed(b)
                    /\ Len(b.fetched) = Cardinality(Missed(b))
                    /\ \A n \in 1..Len(b.fetched) :
                          \E k \in Missed(b) :
                              /\ b.fetched[n] = b.urls[k]
                              /\ Cardinality({j \in Missed(b) : j <= k}) = n)
    /\ [][\A i \in BatchIds :
            (StepOf(i) /\ Len(batches'[i].seen) > Len(batches[i].seen))
                => /\ batches[i].status = 0
                   /\ Len(batches'[i].results) >= Len(batches[i].seen)
                   /\ Len(batches'[i].fetched) <= Len(batches[i].fetched) + 1
                   /\ \A k \in 1..Len(batches[i].seen) :
                         batches'[i].seen[k] = batches[i].seen[k]]_vars

\* a request of two URLs has the record of the first and waits for the
\* page of the second
C22_Witness ==
    \E i \in BatchIds :
        /\ batches[i].status = 0
        /\ Len(batches[i].urls) = 2
        /\ Len(batches[i].results) = 1
        /\ batches[i].fetched = batches[i].urls

----------------------------------------------------------------------------
(* Every batch is answered *)

\* C23: every accepted scrape batch eventually sends its response, provided
\* each fetch eventually succeeds, fails or times out; a batch issues at most
\* one fetch per distinct discovered URL.
C23_BatchAnswered ==
    /\ \A i \in 1..MaxBatches :
          (Len(batches) >= i /\ batches[i].status = 0)
              ~> (/\ Len(batches) >= i
                  /\ batches[i].status = 200
                  /\ Len(batches[i].results) = Len(batches[i].urls))
    /\ [](\A i \in BatchIds :
            /\ Len(batches[i].fetched) <= Len(batches[i].urls)
            /\ \A m, n \in 1..Len(batches[i].fetched) :
                  batches[i].fetched[m] = batches[i].fetched[n] => m = n
            /\ \A n \in 1..Len(batches[i].fetched) :
                  \E k \in 1..Len(batches[i].urls) :
                      batches[i].fetched[n] = batches[i].urls[k])

\* a request of two URLs was answered after one fetch failed and the other
\* brought a page
C23_Witness ==
    \E i \in BatchIds :
        /\ batches[i].status = 200
        /\ Len(batches[i].fetched) = 2
        /\ IsStub(batches[i].results[1])
        /\ ~IsStub(batches[i].results[2])

----------------------------------------------------------------------------
(* Scraping without the database *)

\* C29: with database caching disabled, POST /api/scrape with non-empty
\* input is still served: the request is accepted, and once answered it has
\* one record per discovered URL, has fetched every URL and has made no
\* cache read or write.
C29_ScrapesWithoutDatabase ==
    /\ [][\A t \in Tokens, raw \in ScrapeInputs, scope \in WorkspaceIds :
            (ScrapeRequest(t, raw, scope) /\ ~ENABLE_DB_CACHE /\ ~Empty(raw))
                => /\ Accepted(Arrived)
                   /\ Arrived.urls = DiscoverUrls(raw)]_vars
    /\ [](~ENABLE_DB_CACHE =>
            \A i \in BatchIds :
                (batches[i].status = 200)
                    => /\ Len(batches[i].results) = Len(batches[i].urls)
                       /\ batches[i].fetched = batches[i].urls
                       /\ batches[i].writes = <<>>
                       /\ products = {})

----------------------------------------------------------------------------
(* The swipe view *)

\* the products of the list that are in the chosen category
Shown ==
    {k \in 1..Len(clientProducts) :
        category = "all" \/ detectCategory(clientProducts[k]) = category}

\* C30: after any sequence of swipe, previous, category change, product
\* delete, favorite toggle and scrape actions, currentIndex stays within the
\* filtered product list: 0 <= currentIndex, and currentIndex is less than
\* the length of filteredProducts whenever that list is non-empty.
C30_IndexWithinList ==
    /\ 0 <= currentIndex
    /\ Shown # {} => currentIndex < Cardinality(Shown)

====
